---- MODULE Spec2Model ----
(***************************************************************************)
(* Transport graph engine of the incident-aware routing service:           *)
(* TransportGraphService (services/transport.py), IncidentImpactService    *)
(* (services/incident_impacts.py), FacebookPostService                     *)
(* (services/facebook_posts.py) and the graph stream (api/v1/transport.py).*)
(*                                                                         *)
(* Numbers.  Weights are seconds, as integers.  All stops lie on one       *)
(* meridian, so the great-circle distance of two points is proportional to *)
(* the difference of their latitudes; latitudes and distances are counted  *)
(* in units of 1/36 km, which makes (distance_km / speed_kmh) * 3600 equal *)
(* to 100 * distance / speed.  A multiplier is a fraction <<num, den>> in  *)
(* lowest terms.  An optional value is {} (None) or a singleton {v}.       *)
(***************************************************************************)
EXTENDS Integers, Sequences, FiniteSets, TLC

None == {}
Some(v) == {v}
The(x) == CHOOSE v \in x : TRUE

Abs(x) == IF x < 0 THEN 0 - x ELSE x

Last(s) == s[Len(s)]

RECURSIVE Flatten(_)
Flatten(ss) == IF ss = <<>> THEN <<>> ELSE Head(ss) \o Flatten(Tail(ss))

\* the set of all orderings of a finite set, as sequences
RECURSIVE Orderings(_)
Orderings(S) ==
  IF S = {} THEN {<<>>}
  ELSE UNION {{<<x>> \o r : r \in Orderings(S \ {x})} : x \in S}

(***************************************************************************)
(* Bounds of the model                                                     *)
(***************************************************************************)
\* an action that would raise a weight above MaxWeight is not taken
MaxWeight == 250
\* events handed to the subscribers in one behaviour of Spec
MaxLog == 3
\* events published in one behaviour of SpecBus
MaxPublished == 130

(***************************************************************************)
(* Program constants                                                       *)
(***************************************************************************)
\* WEIGHT_EPSILON = 1e-6, as the fraction 1 / WEIGHT_EPSILON_INV
WEIGHT_EPSILON_INV == 1000000
\* Queue(maxsize=128)
QUEUE_MAXSIZE == 128
\* walker_speed_kmh, bike_speed_kmh, bike_access_radius_m
WALKER_SPEED_KMH == 5
BIKE_SPEED_KMH == 20
BIKE_ACCESS_RADIUS_M == 150
\* FacebookPostService.APPROVED_WEIGHT_MULTIPLIER = 2.0
APPROVED_WEIGHT_MULTIPLIER == 2
\* the threshold the integration scenarios state for Traffic reports
SOCIAL_SCORE_THRESHOLD == 50

ONE == <<1, 1>>
RatMulInverted(w, m) == (w * m[2]) \div m[1]
RatMul(w, m) == (w * m[1]) \div m[2]
RatDiv(w, m) == (w * m[2]) \div m[1]
RatLess(a, b) == a[1] * b[2] < b[1] * a[2]

(***************************************************************************)
(* The GTFS feed the graphs are built from                                 *)
(***************************************************************************)
\* stops.txt, in file order, with stop_lat
Stops == <<"A", "B", "C", "D">>
Nodes == {Stops[i] : i \in 1..Len(Stops)}
StopLat == [A |-> 0, B |-> 8, C |-> 12, D |-> 22]
StopIndex(n) == CHOOSE i \in 1..Len(Stops) : Stops[i] = n

\* stop_times.txt joined with trips.txt and routes.txt, sorted by trip_id and
\* stop_sequence; the last segment of T2 has no duration, T3 runs from A to C
\* without a stop, and no trip serves D
StopTimes ==
  << [trip_id |-> "T1", route_type |-> 3, stop_id |-> "A", arrival |-> 0],
     [trip_id |-> "T1", route_type |-> 3, stop_id |-> "B", arrival |-> 60],
     [trip_id |-> "T1", route_type |-> 3, stop_id |-> "C", arrival |-> 100],
     [trip_id |-> "T2", route_type |-> 3, stop_id |-> "A", arrival |-> 0],
     [trip_id |-> "T2", route_type |-> 3, stop_id |-> "B", arrival |-> 80],
     [trip_id |-> "T2", route_type |-> 3, stop_id |-> "C", arrival |-> 80],
     [trip_id |-> "T3", route_type |-> 3, stop_id |-> "A", arrival |-> 0],
     [trip_id |-> "T3", route_type |-> 3, stop_id |-> "C", arrival |-> 90] >>

_ROUTE_TYPE_LABELS == [t \in {0, 1, 2, 3} |->
  CASE t = 0 -> "tram" [] t = 1 -> "subway" [] t = 2 -> "rail" [] t = 3 -> "bus"]

\* Edge keys are tuples of the parts of the key string: <<trip_id>> for a transit
\* edge, f"walk-{source}-{target}" and f"{mode}-connector-{source}-{target}"
WalkKey(s, t) == <<"walk", s, t>>
ConnectorKey(mode, s, t) == <<mode, "connector", s, t>>

(***************************************************************************)
(* Geometry and travel time                                                *)
(***************************************************************************)
\* on one meridian a = sin(dlat/2)^2, so the distance is R * |dlat|
_haversine_km(lat1, lat2) == Abs(lat2 - lat1)

_distance_between_nodes(source, target) ==
  _haversine_km(StopLat[source], StopLat[target])

\* (distance_km / speed_kmh) * 3600, for speed_kmh # 0
_travel_time_seconds(distance, speed) ==
  IF speed > 0 THEN (distance * 100) \div speed
  ELSE 0 - ((distance * 100) \div (0 - speed))

(***************************************************************************)
(* A graph is the sequence of its edges in the order networkx iterates     *)
(* them: by source in node order, then by target in the order the pair was *)
(* first inserted, then by key in insertion order.                         *)
(***************************************************************************)
RECURSIVE Dedup(_)
Dedup(s) ==
  IF s = <<>> THEN <<>>
  ELSE <<Head(s)>> \o Dedup(SelectSeq(Tail(s), LAMBDA x : x # Head(s)))

TargetsOf(inserted, n) ==
  LET from == SelectSeq(inserted, LAMBDA e : e.source = n)
  IN  Dedup([i \in 1..Len(from) |-> from[i].target])

IterationOrder(inserted) ==
  Flatten([i \in 1..Len(Stops) |->
    LET n == Stops[i]
        ts == TargetsOf(inserted, n)
    IN  Flatten([j \in 1..Len(ts) |->
          SelectSeq(inserted, LAMBDA e : e.source = n /\ e.target = ts[j])])])

EdgeIndex(g, source, target, key) ==
  {i \in 1..Len(g) : g[i].source = source /\ g[i].target = target /\ g[i].key = key}

\* graph.add_edge(source, target, key=key, **payload): a known key keeps its
\* place and takes the payload, a new one is inserted
add_edge(g, payload) ==
  LET at == EdgeIndex(g, payload.source, payload.target, payload.key)
  IN  IF at = {} THEN IterationOrder(Append(g, payload))
      ELSE [i \in 1..Len(g) |-> IF i \in at THEN payload ELSE g[i]]

RECURSIVE add_edges(_, _)
add_edges(g, payloads) ==
  IF payloads = <<>> THEN g
  ELSE add_edges(add_edge(g, Head(payloads)), Tail(payloads))

\* graph.get_edge_data(source, target): the edges of the pair, by key, in
\* insertion order
get_edge_data(g, source, target) ==
  SelectSeq(g, LAMBDA e : e.source = source /\ e.target = target)

\* graph[source][target][key] of the graph of the mode
EdgeOf(gs, mode, source, target, key) ==
  gs[mode][CHOOSE i \in EdgeIndex(gs[mode], source, target, key) : TRUE]

(***************************************************************************)
(* Graph construction (build_graphs)                                       *)
(***************************************************************************)
\* the transit edge of one stop_times row, if the next row continues its trip
\* with a positive segment_duration
SegmentOf(i) ==
  IF i < Len(StopTimes) /\ StopTimes[i + 1].trip_id = StopTimes[i].trip_id
       /\ StopTimes[i + 1].arrival - StopTimes[i].arrival > 0
  THEN << [source |-> StopTimes[i].stop_id,
           target |-> StopTimes[i + 1].stop_id,
           key |-> <<StopTimes[i].trip_id>>,
           weight |-> StopTimes[i + 1].arrival - StopTimes[i].arrival,
           default_weight |-> StopTimes[i + 1].arrival - StopTimes[i].arrival,
           mode |-> _ROUTE_TYPE_LABELS[StopTimes[i].route_type],
           distance_km |-> None,
           speed_kmh |-> None,
           connector |-> None] >>
  ELSE <<>>

TransitModes ==
  {_ROUTE_TYPE_LABELS[StopTimes[i].route_type] : i \in 1..Len(StopTimes)}

_build_transit_graphs ==
  LET rows == Flatten([i \in 1..Len(StopTimes) |-> SegmentOf(i)])
  IN  [m \in TransitModes |->
        add_edges(<<>>, SelectSeq(rows, LAMBDA e : e.mode = m))]

\* walking_edges[(source, target)] = payload when the pair is new or the
\* payload is faster
PutWalking(walking_edges, source, target, payload) ==
  LET e == [payload EXCEPT !.source = source, !.target = target,
                           !.key = WalkKey(source, target)]
      at == {i \in 1..Len(walking_edges) :
               walking_edges[i].source = source /\ walking_edges[i].target = target}
  IN  IF at = {} THEN Append(walking_edges, e)
      ELSE IF payload.weight < walking_edges[CHOOSE i \in at : TRUE].weight
           THEN [i \in 1..Len(walking_edges) |->
                   IF i \in at THEN e ELSE walking_edges[i]]
           ELSE walking_edges

RECURSIVE WalkingEdges(_, _)
WalkingEdges(base, walking_edges) ==
  IF base = <<>> THEN walking_edges
  ELSE
    LET b == Head(base)
        distance_km == _distance_between_nodes(b.source, b.target)
        travel_seconds == _travel_time_seconds(distance_km, WALKER_SPEED_KMH)
        candidate == [source |-> b.source, target |-> b.target,
                      key |-> WalkKey(b.source, b.target),
                      weight |-> travel_seconds,
                      default_weight |-> travel_seconds,
                      mode |-> "walking",
                      distance_km |-> Some(distance_km),
                      speed_kmh |-> Some(WALKER_SPEED_KMH),
                      connector |-> None]
    IN  IF b.source = b.target \/ distance_km = 0
        THEN WalkingEdges(Tail(base), walking_edges)
        ELSE WalkingEdges(Tail(base),
               PutWalking(PutWalking(walking_edges, b.source, b.target, candidate),
                          b.target, b.source, candidate))

\* the nodes joined to n by edges taken in either direction
RECURSIVE Reach(_, _)
Reach(g, seen) ==
  LET next == seen \cup {g[i].target : i \in {j \in 1..Len(g) : g[j].source \in seen}}
                   \cup {g[i].source : i \in {j \in 1..Len(g) : g[j].target \in seen}}
  IN  IF next = seen THEN seen ELSE Reach(g, next)

\* list(nx.weakly_connected_components(graph))[0]
FirstComponent(g) == Reach(g, {Stops[1]})

\* the pair the repair loop joins: the nearest one at non-zero distance, the
\* first target in node order among equals
BestPairs(g) ==
  LET comp == FirstComponent(g)
      cand == {p \in comp \X (Nodes \ comp) :
                 _distance_between_nodes(p[1], p[2]) # 0}
  IN  {p \in cand : \A q \in cand :
         _distance_between_nodes(p[1], p[2]) <= _distance_between_nodes(q[1], q[2])}

RECURSIVE _ensure_connected(_, _, _)
_ensure_connected(g, speed_kmh, mode) ==
  IF FirstComponent(g) = Nodes \/ BestPairs(g) = {} THEN g
  ELSE
    LET best == BestPairs(g)
        pair == CHOOSE p \in best :
                  \A q \in best : StopIndex(p[2]) <= StopIndex(q[2])
        best_distance == _distance_between_nodes(pair[1], pair[2])
        travel_seconds == _travel_time_seconds(best_distance, speed_kmh)
        payload(s, t) == [source |-> s, target |-> t,
                          key |-> ConnectorKey(mode, s, t),
                          weight |-> travel_seconds,
                          default_weight |-> travel_seconds,
                          mode |-> mode,
                          distance_km |-> Some(best_distance),
                          speed_kmh |-> Some(speed_kmh),
                          connector |-> Some(TRUE)]
    IN  _ensure_connected(
          add_edge(add_edge(g, payload(pair[1], pair[2])), payload(pair[2], pair[1])),
          speed_kmh, mode)

_build_walking_graph(base_graphs) ==
  LET modes == Orderings(DOMAIN base_graphs)
      order == CHOOSE o \in modes : TRUE
      base == Flatten([i \in 1..Len(order) |-> base_graphs[order[i]]])
  IN  _ensure_connected(add_edges(<<>>, WalkingEdges(base, <<>>)),
                        WALKER_SPEED_KMH, "walking")

(***************************************************************************)
(* The walking graph and its repair, step by step, on a feed whose stops   *)
(* have the latitudes lat                                                  *)
(***************************************************************************)
DistanceIn(lat, source, target) == _haversine_km(lat[source], lat[target])

\* candidate_payload of _build_walking_graph
WalkingPayload(lat, source, target) ==
  [source |-> source, target |-> target, key |-> WalkKey(source, target),
   weight |-> _travel_time_seconds(DistanceIn(lat, source, target), WALKER_SPEED_KMH),
   default_weight |-> _travel_time_seconds(DistanceIn(lat, source, target),
                                           WALKER_SPEED_KMH),
   mode |-> "walking",
   distance_km |-> Some(DistanceIn(lat, source, target)),
   speed_kmh |-> Some(WALKER_SPEED_KMH),
   connector |-> None]

\* the loop when only the edge in the direction of the segment is kept
RECURSIVE WalkingEdgesOneWay(_, _, _)
WalkingEdgesOneWay(lat, base, walking_edges) ==
  IF base = <<>> THEN walking_edges
  ELSE IF Head(base).source = Head(base).target
          \/ DistanceIn(lat, Head(base).source, Head(base).target) = 0
       THEN WalkingEdgesOneWay(lat, Tail(base), walking_edges)
       ELSE WalkingEdgesOneWay(lat, Tail(base),
              PutWalking(walking_edges, Head(base).source, Head(base).target,
                         WalkingPayload(lat, Head(base).source, Head(base).target)))

\* the loop over the edges of the base graphs
RECURSIVE WalkingEdgesIn(_, _, _)
WalkingEdgesIn(lat, base, walking_edges) ==
  IF base = <<>> THEN walking_edges
  ELSE IF Head(base).source = Head(base).target
          \/ DistanceIn(lat, Head(base).source, Head(base).target) = 0
       THEN WalkingEdgesIn(lat, Tail(base), walking_edges)
       ELSE WalkingEdgesIn(lat, Tail(base),
              PutWalking(PutWalking(walking_edges, Head(base).source, Head(base).target,
                                    WalkingPayload(lat, Head(base).source,
                                                   Head(base).target)),
                         Head(base).target, Head(base).source,
                         WalkingPayload(lat, Head(base).source, Head(base).target)))

\* the walking graph when _ensure_connected is called
WalkingGraphIn(lat, base) == add_edges(<<>>, WalkingEdgesIn(lat, base, <<>>))

\* len(list(nx.weakly_connected_components(graph)))
RECURSIVE ComponentsAmong(_, _)
ComponentsAmong(g, nodes) ==
  IF nodes = {} THEN 0
  ELSE 1 + ComponentsAmong(g, nodes \ Reach(g, {CHOOSE n \in nodes : TRUE}))

Components(g) == ComponentsAmong(g, Nodes)

\* the pairs of the two loops that are not skipped
RepairCandidates(g, lat) ==
  {p \in FirstComponent(g) \X (Nodes \ FirstComponent(g)) : DistanceIn(lat, p[1], p[2]) # 0}

\* the pairs best_pair can be: "distance_km < best_distance" keeps the first
\* nearest target, in node order, of the source that is iterated first among
\* those with a nearest pair; source_component is a set, iterated in any order
RepairBest(g, lat) ==
  {p \in RepairCandidates(g, lat) :
     \A q \in RepairCandidates(g, lat) :
       /\ DistanceIn(lat, p[1], p[2]) <= DistanceIn(lat, q[1], q[2])
       /\ (q[1] = p[1] /\ DistanceIn(lat, p[1], p[2]) = DistanceIn(lat, q[1], q[2]))
          => StopIndex(p[2]) <= StopIndex(q[2])}

ConnectorPayload(source, target, distance, speed_kmh, mode) ==
  [source |-> source, target |-> target, key |-> ConnectorKey(mode, source, target),
   weight |-> _travel_time_seconds(distance, speed_kmh),
   default_weight |-> _travel_time_seconds(distance, speed_kmh),
   mode |-> mode,
   distance_km |-> Some(distance),
   speed_kmh |-> Some(speed_kmh),
   connector |-> Some(TRUE)]

\* a connector in one direction only
ConnectorOneWay(pair, distance, speed_kmh, mode) ==
  << ConnectorPayload(pair[1], pair[2], distance, speed_kmh, mode) >>

\* the two graph.add_edge calls of an iteration
ConnectorEdges(pair, distance, speed_kmh, mode) ==
  << ConnectorPayload(pair[1], pair[2], distance, speed_kmh, mode),
     ConnectorPayload(pair[2], pair[1], distance, speed_kmh, mode) >>

\* one iteration of "while True" that does not break
RepairedOnce(g, lat, pair, speed_kmh, mode) ==
  add_edges(g, ConnectorEdges(pair, DistanceIn(lat, pair[1], pair[2]), speed_kmh, mode))

\* _is_within_bike_radius: distance_km <= radius_km, the radius given in metres
_is_within_bike_radius(node, parkings, radius_m) ==
  \E i \in 1..Len(parkings) :
    _haversine_km(StopLat[node], parkings[i]) * 1000 <= radius_m * 36

\* _annotate_bike_accessible_nodes, the same flag on every graph
_annotate_bike_accessible_nodes(parkings, radius_m) ==
  [n \in Nodes |-> parkings # <<>> /\ _is_within_bike_radius(n, parkings, radius_m)]

\* the edge of the walking graph taken with the weight it has
BikeEdgeCopied(payload, accessible) == [payload EXCEPT !.mode = "bike"]

\* one edge of the walking graph as the bike graph takes it
BikeEdge(payload, accessible) ==
  IF payload.distance_km # None
  THEN LET speed == IF accessible[payload.source] /\ accessible[payload.target]
                    THEN BIKE_SPEED_KMH ELSE WALKER_SPEED_KMH
           seconds == _travel_time_seconds(The(payload.distance_km), speed)
       IN  [payload EXCEPT !.mode = "bike", !.speed_kmh = Some(speed),
                           !.weight = seconds, !.default_weight = seconds]
  ELSE [payload EXCEPT !.mode = "bike"]

\* the bike graph derived from the walking graph, and repaired
DeriveBikeGraph(gs, accessible) ==
  IF "walking" \notin DOMAIN gs THEN gs
  ELSE
    LET walking_graph == gs["walking"]
        bike_graph == add_edges(<<>>,
          [i \in 1..Len(walking_graph) |-> BikeEdge(walking_graph[i], accessible)])
        repaired == _ensure_connected(bike_graph, BIKE_SPEED_KMH, "bike")
    IN  [m \in DOMAIN gs \cup {"bike"} |-> IF m = "bike" THEN repaired ELSE gs[m]]

\* the refresh when the bike graph at hand is rescaled in place of being
\* derived from the walking graph
RescaleBikeGraph(gs, accessible) ==
  IF "bike" \notin DOMAIN gs THEN DeriveBikeGraph(gs, accessible)
  ELSE [gs EXCEPT !["bike"] =
          [i \in DOMAIN gs["bike"] |->
             IF accessible[gs["bike"][i].source] /\ accessible[gs["bike"][i].target]
             THEN [gs["bike"][i] EXCEPT
                     !.speed_kmh = Some(BIKE_SPEED_KMH),
                     !.weight = (gs["bike"][i].weight * WALKER_SPEED_KMH) \div BIKE_SPEED_KMH,
                     !.default_weight =
                       (gs["bike"][i].weight * WALKER_SPEED_KMH) \div BIKE_SPEED_KMH]
             ELSE gs["bike"][i]]]

_refresh_bike_graph(gs, accessible) == DeriveBikeGraph(gs, accessible)

_build_graphs_sync ==
  LET base_graphs == _build_transit_graphs
      walking_graph == _build_walking_graph(base_graphs)
      with_walking == [m \in DOMAIN base_graphs \cup {"walking"} |->
                         IF m = "walking" THEN walking_graph ELSE base_graphs[m]]
  IN  _refresh_bike_graph(with_walking, _annotate_bike_accessible_nodes(<<>>, BIKE_ACCESS_RADIUS_M))

BuiltGraphs == _build_graphs_sync

(***************************************************************************)
(* Dictionaries that are iterated keep their insertion order: a sequence   *)
(* of <<key, value>> pairs.                                                *)
(***************************************************************************)
DictHas(d, k) == \E i \in 1..Len(d) : d[i][1] = k
DictGet(d, k, default) ==
  IF DictHas(d, k) THEN d[CHOOSE i \in 1..Len(d) : d[i][1] = k][2] ELSE default
DictSet(d, k, v) ==
  IF DictHas(d, k) THEN [i \in 1..Len(d) |-> IF d[i][1] = k THEN <<k, v>> ELSE d[i]]
  ELSE Append(d, <<k, v>>)

(***************************************************************************)
(* Events and subscriber queues                                            *)
(***************************************************************************)
NoContext == [multiplier |-> None, distance_to_point_km |-> None,
              facebook_post_id |-> None, reverted |-> None]

\* {"type": "edge_updated", "edge": result}; seq is the place of the event in
\* the order of publication, set when the event is published
EdgeUpdated(payload, context) ==
  [type |-> "edge_updated", seq |-> 0, edge |-> Some(payload),
   context |-> context, graphs |-> None]

StaleSnapshot(gs) == BuiltGraphs

\* graph_snapshot(): every graph serialized
graph_snapshot(gs) == gs

\* {"type": "snapshot", "graphs": snapshot}
SnapshotEvent(gs) ==
  [type |-> "snapshot", seq |-> 0, edge |-> None,
   context |-> NoContext, graphs |-> Some(graph_snapshot(gs))]

\* queue.put_nowait(event); on QueueFull the oldest event is taken out and the
\* event is put again
PutDropNewest(q, event) ==
  IF Len(q) < QUEUE_MAXSIZE THEN Append(q, event) ELSE q

PutNewestFirst(q, event) ==
  IF Len(q) < QUEUE_MAXSIZE THEN <<event>> \o q ELSE <<event>> \o SubSeq(q, 1, Len(q) - 1)

PutDropOldest(q, event) ==
  IF Len(q) < QUEUE_MAXSIZE THEN Append(q, event) ELSE Append(Tail(q), event)

\* _notify_subscribers(event): one put on the queue of every subscriber
_notify_subscribers(qs, subscribers, event) ==
  [c \in DOMAIN qs |-> IF c \in subscribers THEN PutDropOldest(qs[c], event) ELSE qs[c]]

RECURSIVE NotifyEach(_, _, _, _)
NotifyEach(qs, subscribers, events, n) ==
  IF events = <<>> THEN qs
  ELSE NotifyEach(_notify_subscribers(qs, subscribers, [Head(events) EXCEPT !.seq = n + 1]),
                  subscribers, Tail(events), n + 1)

Stamped(events, n) == [i \in 1..Len(events) |-> [events[i] EXCEPT !.seq = n + i]]

(***************************************************************************)
(* TransportGraphService.update_edge                                       *)
(***************************************************************************)
Failed(gs, error) == [error |-> Some(error), graphs |-> gs, events |-> <<>>, edge |-> None]

\* the edge addressed when the last of the pair stands for a missing key
ResolveLast(candidate_edges, key) ==
  IF key = None THEN Some(Last(candidate_edges))
  ELSE {candidate_edges[i] : i \in {j \in 1..Len(candidate_edges) :
                                      candidate_edges[j].key = The(key)}}

\* the edge the call addresses: the first of the pair when key is None
ResolveEdge(candidate_edges, key) ==
  IF key = None THEN Some(candidate_edges[1])
  ELSE {candidate_edges[i] : i \in {j \in 1..Len(candidate_edges) :
                                      candidate_edges[j].key = The(key)}}

\* the write whose event carries the edge as it was before the call
WritePreImage(gs, mode, updated, event_context) ==
  [error |-> None,
   graphs |-> [gs EXCEPT ![mode] = add_edge(gs[mode], updated)],
   events |-> <<EdgeUpdated(EdgeOf(gs, mode, updated.source, updated.target, updated.key),
                            event_context)>>,
   edge |-> Some(updated)]

\* the write that adds the updated payload as another edge of the pair
WriteBeside(gs, mode, updated, event_context) ==
  [error |-> None,
   graphs |-> [gs EXCEPT ![mode] = add_edge(gs[mode], [updated EXCEPT !.key = <<"copy">>])],
   events |-> <<EdgeUpdated(updated, event_context)>>,
   edge |-> Some(updated)]

\* the write when the two edges of a pair share their payload
WriteBothWays(gs, mode, updated, event_context) ==
  [error |-> None,
   graphs |-> [gs EXCEPT ![mode] =
                 [i \in DOMAIN gs[mode] |->
                    IF gs[mode][i].source = updated.target /\ gs[mode][i].target = updated.source
                    THEN [gs[mode][i] EXCEPT !.weight = updated.weight]
                    ELSE add_edge(gs[mode], updated)[i]]],
   events |-> <<EdgeUpdated(updated, event_context)>>,
   edge |-> Some(updated)]

\* graph.add_edge(...), the result and its event
WriteEdge(gs, mode, updated, event_context) ==
  [error |-> None,
   graphs |-> [gs EXCEPT ![mode] = add_edge(gs[mode], updated)],
   events |-> <<EdgeUpdated(updated, event_context)>>,
   edge |-> Some(updated)]

\* the write when the sign of the weight is not looked at
WriteAnyWeight(gs, mode, with_speed, resolved, event_context) ==
  WriteEdge(gs, mode,
            IF resolved # None THEN [with_speed EXCEPT !.weight = The(resolved)]
            ELSE with_speed,
            event_context)

\* "if weight is not None": a weight that is not positive raises after
\* speed_kmh was written to the edge
WriteWeight(gs, mode, with_speed, resolved, event_context) ==
  IF resolved # None /\ The(resolved) <= 0
  THEN Failed([gs EXCEPT ![mode] = add_edge(gs[mode], with_speed)], "ValueError")
  ELSE WriteEdge(gs, mode,
                 IF resolved # None THEN [with_speed EXCEPT !.weight = The(resolved)]
                 ELSE with_speed,
                 event_context)

\* the steps of update_edge after the edge is resolved
UpdateResolved(gs, mode, edge_payload, weight, speed_kmh, event_context) ==
  WriteWeight(gs, mode,
              IF speed_kmh # None THEN [edge_payload EXCEPT !.speed_kmh = speed_kmh]
              ELSE edge_payload,
              IF speed_kmh # None
              THEN Some(_travel_time_seconds(The(edge_payload.distance_km), The(speed_kmh)))
              ELSE weight,
              event_context)

\* "if speed_kmh is not None": the edge needs distance_km
UpdatePayload(gs, mode, edge_payload, weight, speed_kmh, event_context) ==
  IF speed_kmh # None /\ edge_payload.distance_km = None THEN Failed(gs, "ValueError")
  ELSE IF speed_kmh # None /\ The(speed_kmh) = 0 THEN Failed(gs, "ZeroDivisionError")
  ELSE UpdateResolved(gs, mode, edge_payload, weight, speed_kmh, event_context)

UpdateChosen(gs, mode, chosen, weight, speed_kmh, event_context) ==
  IF chosen = None THEN Failed(gs, "KeyError")
  ELSE UpdatePayload(gs, mode, The(chosen), weight, speed_kmh, event_context)

UpdateAmong(gs, mode, candidate_edges, key, weight, speed_kmh, event_context) ==
  IF candidate_edges = <<>> THEN Failed(gs, "KeyError")
  ELSE UpdateChosen(gs, mode, ResolveEdge(candidate_edges, key), weight, speed_kmh,
                    event_context)

SkipNoOp(gs, r) ==
  IF r.error = None /\ r.graphs = gs THEN [r EXCEPT !.events = <<>>] ELSE r

UpdateEdgeSkipsEvent(gs, mode, source, target, key, weight, speed_kmh, event_context) ==
  IF mode \notin DOMAIN gs THEN Failed(gs, "KeyError")
  ELSE SkipNoOp(gs, UpdateAmong(gs, mode, get_edge_data(gs[mode], source, target), key,
                                weight, speed_kmh, event_context))

MoveDefault(mode, r) ==
  IF r.error # None THEN r
  ELSE [r EXCEPT !.graphs =
          [r.graphs EXCEPT ![mode] =
             add_edge(r.graphs[mode],
                      [The(r.edge) EXCEPT !.default_weight = The(r.edge).weight])]]

UpdateEdgeMovesDefault(gs, mode, source, target, key, weight, speed_kmh, event_context) ==
  IF mode \notin DOMAIN gs THEN Failed(gs, "KeyError")
  ELSE MoveDefault(mode, UpdateAmong(gs, mode, get_edge_data(gs[mode], source, target), key,
                                     weight, speed_kmh, event_context))

update_edge(gs, mode, source, target, key, weight, speed_kmh, event_context) ==
  IF mode \notin DOMAIN gs THEN Failed(gs, "KeyError")
  ELSE UpdateAmong(gs, mode, get_edge_data(gs[mode], source, target), key,
                   weight, speed_kmh, event_context)

(***************************************************************************)
(* Nearest transit edge                                                    *)
(***************************************************************************)
\* the transit modes in the order of self._graphs (grouped by route_type)
RECURSIVE SortedTypes(_)
SortedTypes(S) ==
  IF S = {} THEN <<>>
  ELSE LET m == CHOOSE x \in S : \A y \in S : x <= y
       IN  <<m>> \o SortedTypes(S \ {m})

ModeOrder ==
  LET types == SortedTypes({StopTimes[i].route_type : i \in 1..Len(StopTimes)})
  IN  [i \in 1..Len(types) |-> _ROUTE_TYPE_LABELS[types[i]]] \o <<"walking", "bike">>

\* the edges of the given modes in iteration order, each with the distance of
\* its midpoint to the point
CandidatesIn(gs, modes, latitude) ==
  Flatten([i \in 1..Len(modes) |->
    [j \in 1..Len(gs[modes[i]]) |->
      [mode |-> modes[i], source |-> gs[modes[i]][j].source,
       target |-> gs[modes[i]][j].target, key |-> gs[modes[i]][j].key,
       distance_km |->
         _haversine_km(latitude,
                       (StopLat[gs[modes[i]][j].source]
                        + StopLat[gs[modes[i]][j].target]) \div 2)]]])

\* the candidates when no mode is skipped
CandidatesOfEveryMode(gs, latitude) ==
  CandidatesIn(gs, SelectSeq(ModeOrder, LAMBDA m : m \in DOMAIN gs), latitude)

\* the candidates of _closest_transit_edge_match: "if mode in {walking, bike}:
\* continue"
TransitCandidates(gs, latitude) ==
  CandidatesIn(gs, SelectSeq(ModeOrder, LAMBDA m : m \in DOMAIN gs
                                                   /\ m \notin {"walking", "bike"}),
               latitude)

\* the last candidate no other one is strictly nearer than
LastBest(cand) ==
  {cand[i] : i \in {k \in 1..Len(cand) :
                      /\ \A j \in 1..Len(cand) : cand[k].distance_km <= cand[j].distance_km
                      /\ \A j \in (k + 1)..Len(cand) : cand[j].distance_km > cand[k].distance_km}}

\* best_match: the first candidate no later one is strictly nearer than; None
\* stands for the ValueError of an empty candidate list
BestMatch(cand) ==
  {cand[i] : i \in {k \in 1..Len(cand) :
                      /\ \A j \in 1..Len(cand) : cand[k].distance_km <= cand[j].distance_km
                      /\ \A j \in 1..(k - 1) : cand[j].distance_km > cand[k].distance_km}}

\* the first candidate of least weight
LightestOf(gs, cand) ==
  {cand[i] : i \in {k \in 1..Len(cand) :
     /\ \A j \in 1..Len(cand) :
          EdgeOf(gs, cand[k].mode, cand[k].source, cand[k].target, cand[k].key).weight
            <= EdgeOf(gs, cand[j].mode, cand[j].source, cand[j].target, cand[j].key).weight
     /\ \A j \in 1..(k - 1) :
          EdgeOf(gs, cand[j].mode, cand[j].source, cand[j].target, cand[j].key).weight
            > EdgeOf(gs, cand[k].mode, cand[k].source, cand[k].target, cand[k].key).weight}}

LightestMatch(gs, latitude) == LightestOf(gs, TransitCandidates(gs, latitude))

_closest_transit_edge_match(gs, latitude) == BestMatch(TransitCandidates(gs, latitude))

\* the payload of the match with its address and distance_to_point_km
MatchView(gs, m) ==
  [address |-> <<m.mode, m.source, m.target, m.key>>,
   data |-> EdgeOf(gs, m.mode, m.source, m.target, m.key),
   distance_to_point_km |-> m.distance_km]

ViewOf(gs, match) == IF match = None THEN None ELSE Some(MatchView(gs, The(match)))

get_closest_transit_edge(gs, latitude) ==
  ViewOf(gs, _closest_transit_edge_match(gs, latitude))

UpdateMatch(gs, m, weight) ==
  update_edge(gs, m.mode, m.source, m.target, Some(m.key), Some(weight), None,
              [NoContext EXCEPT !.distance_to_point_km = Some(m.distance_km)])

UpdateMatched(gs, match, weight) ==
  IF match = None THEN Failed(gs, "ValueError") ELSE UpdateMatch(gs, The(match), weight)

update_closest_transit_edge(gs, latitude, weight) ==
  IF weight <= 0 THEN Failed(gs, "ValueError")
  ELSE UpdateMatched(gs, _closest_transit_edge_match(gs, latitude), weight)

(***************************************************************************)
(* Route planning (plan_route_with_incidents)                              *)
(***************************************************************************)
ImpactedFromDefault(data) == data.weight - data.default_weight >= 0

\* current_weight - default_weight > WEIGHT_EPSILON
_is_edge_impacted(data) ==
  (data.weight - data.default_weight) * WEIGHT_EPSILON_INV > 1

\* graph.copy() without the impacted edges
_graph_without_impacted_edges(g) ==
  SelectSeq(g, LAMBDA e : ~_is_edge_impacted(e))

\* the first edge of the pair no other one has a smaller weight than
CheapestNow(edges) ==
  edges[CHOOSE k \in 1..Len(edges) :
          /\ \A j \in 1..Len(edges) : edges[k].weight <= edges[j].weight
          /\ \A j \in 1..(k - 1) : edges[j].weight > edges[k].weight]

\* the first edge of the pair no other one has a smaller default_weight than
FirstCheapest(edges) ==
  edges[CHOOSE k \in 1..Len(edges) :
          /\ \A j \in 1..Len(edges) : edges[k].default_weight <= edges[j].default_weight
          /\ \A j \in 1..(k - 1) : edges[j].default_weight > edges[k].default_weight]

_resolve_edge_for_path(g, source, target) ==
  FirstCheapest(get_edge_data(g, source, target))

Segment(data) ==
  [source |-> data.source, target |-> data.target, key |-> data.key,
   mode |-> data.mode, default_weight |-> data.default_weight,
   current_weight |-> data.weight, impacted |-> _is_edge_impacted(data)]

_build_route_segments(g, nodes) ==
  [i \in 1..(Len(nodes) - 1) |-> Segment(_resolve_edge_for_path(g, nodes[i], nodes[i + 1]))]

RECURSIVE SumOf(_, _)
SumOf(segments, field) ==
  IF segments = <<>> THEN 0
  ELSE Head(segments)[field] + SumOf(Tail(segments), field)

_shape_route_payload(nodes, segments) ==
  [nodes |-> nodes, segments |-> segments,
   total_default_weight |-> SumOf(segments, "default_weight"),
   total_current_weight |-> SumOf(segments, "current_weight")]

\* the node sequences without a repeated node that follow edges of g from
\* source to target
NodePaths(g, source, target) ==
  {p \in UNION {Orderings(S) : S \in SUBSET Nodes} :
     /\ p # <<>>
     /\ p[1] = source
     /\ p[Len(p)] = target
     /\ \A i \in 1..(Len(p) - 1) : get_edge_data(g, p[i], p[i + 1]) # <<>>}

\* the length of a node sequence by the weights the edges have now
PathLengthNow(g, p) == SumOf(_build_route_segments(g, p), "current_weight")

\* the length of a node sequence for weight="default_weight": on a multigraph
\* networkx takes the smallest default_weight of the parallel edges
PathLength(g, p) == SumOf(_build_route_segments(g, p), "default_weight")

\* nx.shortest_path(graph, source, target, weight="default_weight"): one of
\* the node sequences of least length; the empty set stands for NetworkXNoPath
ShortestPaths(g, source, target) ==
  {p \in NodePaths(g, source, target) :
     \A q \in NodePaths(g, source, target) : PathLength(g, p) <= PathLength(g, q)}

RouteError(error) ==
  [error |-> Some(error), incident_detected |-> FALSE, message |-> None,
   default_path |-> None, suggested_path |-> None]

\* the response whose message is kept for the case with no alternative
RouteResponseTerse(default_nodes, default_segments, incident_detected, suggested_path) ==
  [error |-> None,
   incident_detected |-> incident_detected,
   message |-> IF incident_detected /\ suggested_path = None
               THEN Some("no unaffected alternative was found")
               ELSE None,
   default_path |-> Some(_shape_route_payload(default_nodes, default_segments)),
   suggested_path |-> suggested_path]

RouteResponse(default_nodes, default_segments, incident_detected, suggested_path) ==
  [error |-> None,
   incident_detected |-> incident_detected,
   message |-> IF incident_detected /\ suggested_path = None
               THEN Some("no unaffected alternative was found")
               ELSE IF incident_detected THEN Some("alternative route suggested")
               ELSE None,
   default_path |-> Some(_shape_route_payload(default_nodes, default_segments)),
   suggested_path |-> suggested_path]

\* alternative_path_payload: the segments of the alternative are resolved on
\* graph, not on clean_graph
AlternativeAlong(g, default_nodes, alternative_nodes) ==
  IF alternative_nodes = default_nodes \/ Len(alternative_nodes) < 2 THEN None
  ELSE Some(_shape_route_payload(alternative_nodes,
                                 _build_route_segments(g, alternative_nodes)))

Alternatives(g, default_nodes, clean_paths) ==
  IF clean_paths = {} THEN {None}
  ELSE {AlternativeAlong(g, default_nodes, p) : p \in clean_paths}

PlanSegments(g, source, target, default_nodes, default_segments) ==
  IF \E i \in 1..Len(default_segments) : default_segments[i].impacted
  THEN {RouteResponse(default_nodes, default_segments, TRUE, a) :
          a \in Alternatives(g, default_nodes,
                             ShortestPaths(_graph_without_impacted_edges(g), source, target))}
  ELSE {RouteResponse(default_nodes, default_segments, FALSE, None)}

PlanAlong(g, source, target, default_nodes) ==
  PlanSegments(g, source, target, default_nodes, _build_route_segments(g, default_nodes))

\* the plan when a missing path is answered with an empty default path
PlanWithoutNoPath(g, source, target, default_paths) ==
  IF default_paths = {} THEN {RouteResponse(<<>>, <<>>, FALSE, None)}
  ELSE UNION {PlanAlong(g, source, target, p) : p \in default_paths}

PlanAmong(g, source, target, default_paths) ==
  IF default_paths = {} THEN {RouteError("ValueError")}
  ELSE UNION {PlanAlong(g, source, target, p) : p \in default_paths}

\* the responses plan_route_with_incidents can give: one for each choice
\* nx.shortest_path can make among node sequences of equal length
plan_route_with_incidents(gs, mode, source, target) ==
  IF mode \notin DOMAIN gs THEN {RouteError("KeyError")}
  ELSE IF source \notin Nodes \/ target \notin Nodes THEN {RouteError("ValueError")}
  ELSE PlanAmong(gs[mode], source, target, ShortestPaths(gs[mode], source, target))

(***************************************************************************)
(* Incidents, posts and the configuration of the incident loop             *)
(***************************************************************************)
\* INCIDENT_DELAY_MAPPING: dict[str, float] = {}
INCIDENT_DELAY_MAPPING == [c \in {} |-> ONE]

\* the mapping the integration scenarios assume: Traffic slows by 1.5, Crush
\* blocks (a multiplier larger than any other; 4 stands for it here)
ScenarioDelayMapping == [c \in {"Traffic", "Crush"} |->
                           IF c = "Traffic" THEN <<3, 2>> ELSE <<4, 1>>]

\* the class attribute is the checked-in empty mapping or a configured one
DelayMappings == {INCIDENT_DELAY_MAPPING, ScenarioDelayMapping}

\* the incidents that can be reported: category, latitude, reporter_social_score.
\* i1, i2 and i4 are nearest to the bus edge from A to B, i3 to the one from B
\* to C; i5 has a category of multiplier 0, i6 a category no mapping knows,
\* i7 no coordinates and i8 a category of multiplier 0.5
IncidentIds == {"i1", "i2", "i3", "i4", "i5", "i6", "i7", "i8"}
IncidentData ==
  [i \in IncidentIds |->
     CASE i = "i1" -> [category |-> "Traffic", latitude |-> Some(4), reporter_social_score |-> 25]
       [] i = "i2" -> [category |-> "Traffic", latitude |-> Some(4), reporter_social_score |-> 30]
       [] i = "i3" -> [category |-> "Crush", latitude |-> Some(14), reporter_social_score |-> 5]
       [] i = "i4" -> [category |-> "Crush", latitude |-> Some(4), reporter_social_score |-> 5]
       [] i = "i5" -> [category |-> "Closure", latitude |-> Some(4), reporter_social_score |-> 5]
       [] i = "i6" -> [category |-> "Other", latitude |-> Some(4), reporter_social_score |-> 5]
       [] i = "i7" -> [category |-> "Crush", latitude |-> None, reporter_social_score |-> 5]
       [] i = "i8" -> [category |-> "Relief", latitude |-> Some(4), reporter_social_score |-> 5]]

\* the incidents of the integration scenarios
ScenarioIncidents == {"i1", "i2", "i3"}

\* a configured mapping with an entry that is not positive and one below 1
TargetDelayMapping == [c \in {"Traffic", "Crush", "Closure", "Relief"} |->
                         CASE c = "Traffic" -> <<3, 2>>
                           [] c = "Crush" -> <<4, 1>>
                           [] c = "Closure" -> <<0, 1>>
                           [] c = "Relief" -> <<1, 2>>]

\* the Facebook posts of the index, with their latitude
PostIds == {"p1", "p2", "p3"}
PostLat == [p \in PostIds |-> IF p = "p3" THEN None ELSE Some(4)]

NewPost == [approved |-> FALSE, edge |-> None,
            edge_weight_before |-> None, edge_weight_applied |-> None]

(***************************************************************************)
(* IncidentImpactService                                                   *)
(***************************************************************************)
\* the loop over the incidents in _apply_incident_impacts: st carries
\* _edge_baselines and target_multipliers.
\* The target that is the multiplier of the incident listed last:
TargetOfLast(multiplier, edge_key, weight, current_multiplier, st) ==
  [baselines |-> IF DictHas(st.baselines, edge_key) THEN st.baselines
                 ELSE DictSet(st.baselines, edge_key,
                              IF current_multiplier[1] # 0
                              THEN RatDiv(weight, current_multiplier)
                              ELSE weight),
   targets |-> DictSet(st.targets, edge_key, multiplier)]

\* The baseline and the target of one edge, for one incident resolved to it:
TargetAt(multiplier, edge_key, weight, current_multiplier, st) ==
  [baselines |-> IF DictHas(st.baselines, edge_key) THEN st.baselines
                 ELSE DictSet(st.baselines, edge_key,
                              IF current_multiplier[1] # 0
                              THEN RatDiv(weight, current_multiplier)
                              ELSE weight),
   targets |-> IF RatLess(DictGet(st.targets, edge_key, ONE), multiplier)
               THEN DictSet(st.targets, edge_key, multiplier)
               ELSE st.targets]

TargetEdge(multiplier, edge, current_multipliers, st) ==
  IF edge = None THEN st
  ELSE TargetAt(multiplier, The(edge).address, The(edge).data.weight,
                DictGet(current_multipliers, The(edge).address, ONE), st)

\* the body of "for incident in incidents"
TargetOf(incident, gs, mapping, current_multipliers, st) ==
  IF incident.category \notin DOMAIN mapping THEN st
  ELSE IF mapping[incident.category][1] <= 0 THEN st
  ELSE IF incident.latitude = None THEN st
  ELSE TargetEdge(mapping[incident.category],
                  get_closest_transit_edge(gs, The(incident.latitude)),
                  current_multipliers, st)

RECURSIVE TargetMultipliers(_, _, _, _, _)
TargetMultipliers(fetched, gs, mapping, current_multipliers, st) ==
  IF fetched = <<>> THEN st
  ELSE TargetMultipliers(Tail(fetched), gs, mapping, current_multipliers,
                         TargetOf(Head(fetched), gs, mapping, current_multipliers, st))

\* after update_edge(...): self._current_multipliers[edge_key] = multiplier,
\* unless update_edge raised; st carries the graphs, the multipliers, the
\* events and whether update_edge raised
Applied(st, edge_key, multiplier, r) ==
  IF r.error # None THEN [st EXCEPT !.graphs = r.graphs, !.raised = TRUE]
  ELSE [st EXCEPT !.graphs = r.graphs, !.events = st.events \o r.events,
                  !.multipliers = DictSet(st.multipliers, edge_key, multiplier)]

SetWeight(gs, edge_key, weight, multiplier) ==
  update_edge(gs, edge_key[1], edge_key[2], edge_key[3], Some(edge_key[4]),
              Some(weight), None, [NoContext EXCEPT !.multiplier = Some(multiplier)])

\* the update when the multiplier is applied to the weight the edge has,
\* whatever multiplier is recorded for it
ApplyOnCurrent(edge_key, multiplier, baselines, st) ==
  IF ~DictHas(baselines, edge_key) THEN st
  ELSE Applied(st, edge_key, multiplier,
               SetWeight(st.graphs, edge_key,
                         RatMul(EdgeOf(st.graphs, edge_key[1], edge_key[2], edge_key[3],
                                       edge_key[4]).weight,
                                multiplier),
                         multiplier))

ApplyTarget(edge_key, multiplier, baselines, st) ==
  IF ~DictHas(baselines, edge_key) \/ multiplier = DictGet(st.multipliers, edge_key, ONE)
  THEN st
  ELSE Applied(st, edge_key, multiplier,
               SetWeight(st.graphs, edge_key,
                         RatMul(DictGet(baselines, edge_key, 0), multiplier), multiplier))

\* "Apply or update affected edges"
RECURSIVE ApplyTargets(_, _, _)
ApplyTargets(targets, baselines, st) ==
  IF targets = <<>> \/ st.raised THEN st
  ELSE ApplyTargets(Tail(targets), baselines,
                    ApplyTarget(Head(targets)[1], Head(targets)[2], baselines, st))

\* the revert that only forgets the multiplier of the edge
RevertUnwritten(edge_key, current_multiplier, targets, baselines, st) ==
  IF DictHas(targets, edge_key) \/ current_multiplier = ONE \/ ~DictHas(baselines, edge_key)
  THEN st
  ELSE [st EXCEPT !.multipliers = DictSet(st.multipliers, edge_key, ONE)]

RevertEdge(edge_key, current_multiplier, targets, baselines, st) ==
  IF DictHas(targets, edge_key) \/ current_multiplier = ONE \/ ~DictHas(baselines, edge_key)
  THEN st
  ELSE Applied(st, edge_key, ONE,
               SetWeight(st.graphs, edge_key, DictGet(baselines, edge_key, 0), ONE))

\* "Revert edges no longer impacted", over list(self._current_multipliers.items())
RECURSIVE RevertCleared(_, _, _, _)
RevertCleared(items, targets, baselines, st) ==
  IF items = <<>> \/ st.raised THEN st
  ELSE RevertCleared(Tail(items), targets, baselines,
                     RevertEdge(Head(items)[1], Head(items)[2], targets, baselines, st))

RevertAfter(targets, baselines, st) ==
  RevertCleared(st.multipliers, targets, baselines, st)

ImpactedOf(impacted) == [i \in 1..Len(impacted) |-> impacted[i][1]]

ModifiedOf(multipliers) ==
  ImpactedOf(SelectSeq(multipliers, LAMBDA kv : kv[2] # ONE))

Outcome(modified, st) ==
  [graphs |-> st.graphs, multipliers |-> st.multipliers,
   events |-> st.events, raised |-> st.raised,
   modified |-> IF st.raised THEN modified ELSE ModifiedOf(st.multipliers)]

\* _apply_multipliers(target_multipliers)
_apply_multipliers(gs, targets, baselines, multipliers, modified) ==
  Outcome(modified,
          RevertAfter(targets, baselines,
                      ApplyTargets(targets, baselines,
                                   [graphs |-> gs, multipliers |-> multipliers,
                                    events |-> <<>>, raised |-> FALSE])))

WithBaselines(baselines, r) ==
  [graphs |-> r.graphs, baselines |-> baselines, multipliers |-> r.multipliers,
   modified |-> r.modified, events |-> r.events, raised |-> r.raised]

ImpactsOf(gs, t, multipliers, modified) ==
  WithBaselines(t.baselines,
                _apply_multipliers(gs, t.targets, t.baselines, multipliers, modified))

\* _apply_incident_impacts(incidents)
_apply_incident_impacts(fetched, gs, mapping, baselines, multipliers, modified) ==
  ImpactsOf(gs,
            TargetMultipliers(fetched, gs, mapping, multipliers,
                              [baselines |-> baselines, targets |-> <<>>]),
            multipliers, modified)

(***************************************************************************)
(* State                                                                   *)
(***************************************************************************)
VARIABLES
  _graphs,               \* TransportGraphService._graphs: mode -> edges
  bike_accessible,       \* the bike_accessible attribute of the nodes
  _bike_parkings,        \* latitudes of the registered bike parkings
  _bike_access_radius_m, \* _bike_access_radius_km, in metres
  _subscribers,          \* the subscriber queues, named by their stream
  queues,                \* the content of each stream's queue
  sent,                  \* the frames each open stream has sent to its client
  sub_at,                \* Len(log) when the stream subscribed
  log,                   \* the events published so far, in order
  published,             \* the number of events published so far
  delay_mapping,         \* IncidentImpactService.INCIDENT_DELAY_MAPPING
  incidents,             \* the incident index: absent, reported or approved
  posts,                 \* the Facebook post index
  _edge_baselines,       \* IncidentImpactService._edge_baselines
  _current_multipliers,  \* IncidentImpactService._current_multipliers
  _modified_edges,       \* IncidentImpactService._modified_edges
  impacts_current,       \* the loop has completed a cycle on the incidents now indexed
  fetch_failed,          \* the last cycle of _run logged an exception of the fetch
  route_plan,            \* the last response of GET /transport/routes, with its request
  _task,                 \* IncidentImpactService._task: none, pending or done
  cycles,                \* the cycles of _run so far, counted modulo MaxCycles
  build,                 \* the walking graph build_graphs is repairing, if it is
  iterations,            \* the iterations of the repair loop so far
  last_read,             \* the last read call on the graph service, with its response
  handlers,              \* where the handler of each stream is in stream_transport_graph
  publishing             \* the call of _notify_subscribers in progress or last returned

graph_vars == <<_graphs, bike_accessible, _bike_parkings, _bike_access_radius_m>>
bus_vars == <<_subscribers, queues, sent, sub_at, log, published>>
store_vars == <<delay_mapping, incidents, posts>>
loop_vars == <<_edge_baselines, _current_multipliers, _modified_edges>>
task_vars == <<_task, cycles>>
build_vars == <<build, iterations>>
member_vars == <<handlers, publishing>>
vars == <<graph_vars, bus_vars, store_vars, loop_vars, impacts_current,
          fetch_failed, route_plan, task_vars, build_vars, last_read, member_vars>>

Streams == {"c1", "c2"}

\* the state after build_graphs and IncidentImpactService.start(): no
\* subscriber, no incident, no approved post
\* no read call made yet
NoRead == [operation |-> "none", response |-> <<>>]

\* the state of the services but for the graphs and the task of the loop
Constructed(mappings) ==
  /\ bike_accessible = _annotate_bike_accessible_nodes(<<>>, BIKE_ACCESS_RADIUS_M)
  /\ _bike_parkings = <<>>
  /\ _bike_access_radius_m = BIKE_ACCESS_RADIUS_M
  /\ _subscribers = {}
  /\ queues = [c \in Streams |-> <<>>]
  /\ sent = [c \in Streams |-> <<>>]
  /\ sub_at = [c \in Streams |-> 0]
  /\ log = <<>>
  /\ published = 0
  /\ delay_mapping \in mappings
  /\ incidents = [i \in IncidentIds |-> "absent"]
  /\ posts = [p \in PostIds |-> NewPost]
  /\ _edge_baselines = <<>>
  /\ _current_multipliers = <<>>
  /\ _modified_edges = <<>>
  /\ impacts_current = FALSE
  /\ fetch_failed = FALSE
  /\ route_plan = None
  /\ last_read = NoRead
  /\ handlers = [c \in Streams |-> "none"]
  /\ publishing = None
  /\ cycles = 0

Started(mappings) ==
  /\ _graphs = BuiltGraphs
  /\ Constructed(mappings)
  /\ _task = Some("pending")
  /\ build = None
  /\ iterations = 0

Init == Started(DelayMappings)

Weights(gs) == UNION {{gs[m][i].weight : i \in DOMAIN gs[m]} : m \in DOMAIN gs}

\* the events of one operation reach every subscriber queue in order; with
\* no subscriber nothing is published
Publish(events) ==
  IF _subscribers = {} \/ events = <<>>
  THEN UNCHANGED <<queues, log, published>>
  ELSE /\ queues' = NotifyEach(queues, _subscribers, events, published)
       /\ log' = log \o Stamped(events, published)
       /\ published' = published + Len(events)

(***************************************************************************)
(* Requests on the graph                                                   *)
(***************************************************************************)
\* the PATCH requests: an unknown mode, an unknown stop, an unknown key, a
\* rejected weight, and weights and speeds for both trips between A and B
\* and for the walking edge
Patch(mode, source, target, key, weight, speed_kmh) ==
  [mode |-> mode, source |-> source, target |-> target, key |-> key,
   weight |-> weight, speed_kmh |-> speed_kmh]

EdgePatches ==
  { Patch("tram", "A", "B", None, Some(20), None),
    Patch("bus", "Z", "B", None, Some(20), None),
    Patch("bus", "A", "B", Some(<<"T9">>), Some(20), None),
    Patch("bus", "A", "B", Some(<<"T2">>), Some(0), None),
    Patch("bus", "A", "B", Some(<<"T2">>), None, Some(10)),
    Patch("bus", "A", "B", None, Some(20), None),
    Patch("walking", "A", "B", Some(WalkKey("A", "B")), None, Some(10)) }

RequestLatitudes == {4}
RequestWeights == {20}

\* the graphs and the events of a request that wrote an edge
Written(r) ==
  /\ _graphs' = r.graphs
  /\ Publish(r.events)
  /\ UNCHANGED <<bike_accessible, _bike_parkings, _bike_access_radius_m,
                 _subscribers, sent, sub_at, store_vars, loop_vars, impacts_current,
                 fetch_failed, route_plan, task_vars, build_vars, last_read, member_vars>>

\* PATCH /transport/graphs/{mode}/edges/{source}/{target}
UpdateEdge(mode, source, target, key, weight, speed_kmh) ==
  /\ weight # None \/ speed_kmh # None
  /\ Written(update_edge(_graphs, mode, source, target, key, weight, speed_kmh, NoContext))

\* PATCH /transport/graphs/nearest
UpdateClosestTransitEdge(latitude, weight) ==
  /\ weight > 0
  /\ Written(update_closest_transit_edge(_graphs, latitude, weight))

\* load_bike_parkings(locations, proximity_override_m)
ParkingLists == {<<>>, <<0, 10>>}
RadiusOverrides == {None, Some(400)}

\* the store after load_bike_parkings: the parkings, the radius, the flags of
\* the nodes and the graphs
Refreshed(gs, locations, radius_m, accessible) ==
  [parkings |-> locations, radius_m |-> radius_m, accessible |-> accessible,
   graphs |-> _refresh_bike_graph(gs, accessible)]

load_bike_parkings(gs, radius_m, locations, proximity_override_m) ==
  Refreshed(gs, locations,
            IF proximity_override_m # None THEN The(proximity_override_m) ELSE radius_m,
            _annotate_bike_accessible_nodes(
              locations,
              IF proximity_override_m # None THEN The(proximity_override_m) ELSE radius_m))

Loaded(r) ==
  /\ _bike_parkings' = r.parkings
  /\ _bike_access_radius_m' = r.radius_m
  /\ bike_accessible' = r.accessible
  /\ _graphs' = r.graphs

LoadBikeParkings(locations, proximity_override_m) ==
  /\ Loaded(load_bike_parkings(_graphs, _bike_access_radius_m, locations,
                               proximity_override_m))
  /\ Publish(<<SnapshotEvent(_graphs')>>)
  /\ UNCHANGED <<_subscribers, sent, sub_at, store_vars, loop_vars, impacts_current,
                 fetch_failed, route_plan, task_vars, build_vars, last_read, member_vars>>

(***************************************************************************)
(* The incident index and the incident loop                                *)
(***************************************************************************)
\* POST /api/v1/incidents
ReportIncident(i) ==
  /\ incidents[i] = "absent"
  /\ incidents' = [incidents EXCEPT ![i] = "reported"]
  /\ impacts_current' = (impacts_current /\ incidents' = incidents)
  /\ UNCHANGED <<graph_vars, bus_vars, delay_mapping, posts, loop_vars,
                 fetch_failed, route_plan, task_vars, build_vars, last_read, member_vars>>

\* POST /admin/incidents/{incident_id}/approve
ApproveIncident(i) ==
  /\ incidents[i] = "reported"
  /\ incidents' = [incidents EXCEPT ![i] = "approved"]
  /\ impacts_current' = (impacts_current /\ incidents' = incidents)
  /\ UNCHANGED <<graph_vars, bus_vars, delay_mapping, posts, loop_vars,
                 fetch_failed, route_plan, task_vars, build_vars, last_read, member_vars>>

\* POST /admin/incidents/{incident_id}/revoke
RevokeIncident(i) ==
  /\ incidents[i] = "approved"
  /\ incidents' = [incidents EXCEPT ![i] = "reported"]
  /\ impacts_current' = (impacts_current /\ incidents' = incidents)
  /\ UNCHANGED <<graph_vars, bus_vars, delay_mapping, posts, loop_vars,
                 fetch_failed, route_plan, task_vars, build_vars, last_read, member_vars>>

\* DELETE /admin/incidents/api
PurgeIncidents ==
  /\ incidents' = [i \in IncidentIds |-> "absent"]
  /\ impacts_current' = (impacts_current /\ incidents' = incidents)
  /\ UNCHANGED <<graph_vars, bus_vars, delay_mapping, posts, loop_vars,
                 fetch_failed, route_plan, task_vars, build_vars, last_read, member_vars>>

Present == {i \in IncidentIds : incidents[i] # "absent"}

\* the incidents as GET /api/v1/incidents lists them
Fetched(order) ==
  [k \in 1..Len(order) |->
     [id |-> order[k], category |-> IncidentData[order[k]].category,
      latitude |-> IncidentData[order[k]].latitude,
      approved |-> incidents[order[k]] = "approved",
      reporter_social_score |-> IncidentData[order[k]].reporter_social_score]]

\* the state after _apply_incident_impacts returned r, or raised
Cycled(r) ==
  /\ \A w \in Weights(r.graphs) : w <= MaxWeight
  /\ _graphs' = r.graphs
  /\ _edge_baselines' = r.baselines
  /\ _current_multipliers' = r.multipliers
  /\ _modified_edges' = r.modified
  /\ impacts_current' = ~r.raised
  /\ fetch_failed' = FALSE
  /\ Publish(r.events)
  /\ UNCHANGED <<bike_accessible, _bike_parkings, _bike_access_radius_m,
                 _subscribers, sent, sub_at, store_vars, route_plan>>

\* one cycle of _run whose fetch succeeds: _apply_incident_impacts(incidents)
IncidentCycle ==
  /\ _task = Some("pending")
  /\ \E order \in Orderings(Present) :
       Cycled(_apply_incident_impacts(Fetched(order), _graphs, delay_mapping,
                                      _edge_baselines, _current_multipliers, _modified_edges))
  /\ UNCHANGED <<task_vars, build_vars, last_read, member_vars>>

\* what a cycle leaves when a fetch that raised counts as no incident
FetchAsEmpty(gs, baselines, multipliers, modified) ==
  _apply_incident_impacts(<<>>, gs, delay_mapping, baselines, multipliers, modified)

\* what a cycle leaves when _fetch_incidents raised: _apply_incident_impacts
\* is not called
FetchRaised(gs, baselines, multipliers, modified) ==
  [graphs |-> gs, baselines |-> baselines, multipliers |-> multipliers,
   modified |-> modified, events |-> <<>>, raised |-> TRUE]

\* the state after a cycle whose fetch raised and was logged
Logged(r) ==
  /\ _graphs' = r.graphs
  /\ _edge_baselines' = r.baselines
  /\ _current_multipliers' = r.multipliers
  /\ _modified_edges' = r.modified
  /\ fetch_failed' = TRUE
  /\ Publish(r.events)
  /\ UNCHANGED <<bike_accessible, _bike_parkings, _bike_access_radius_m,
                 _subscribers, sent, sub_at, store_vars, impacts_current, route_plan>>

\* one cycle of _run whose fetch raises: the exception is logged
IncidentCycleFetchFails ==
  /\ _task = Some("pending")
  /\ delay_mapping \in DelayMappings
  /\ Logged(FetchRaised(_graphs, _edge_baselines, _current_multipliers, _modified_edges))
  /\ UNCHANGED <<task_vars, build_vars, last_read, member_vars>>

\* the cycles counted: the task dies of an exception that leaves _run
MaxCycles == 3

\* the task when the exception leaves _run
TaskDone(task) == Some("done")

\* "except Exception": the exception is logged and the task goes on to sleep
TaskAfterException(task) == task

Counted(raised) ==
  /\ cycles' = (cycles + 1) % MaxCycles
  /\ _task' = IF raised THEN TaskAfterException(_task) ELSE _task
  /\ UNCHANGED <<build_vars, last_read, member_vars>>

CountedCycle(r) == Cycled(r) /\ Counted(r.raised)

\* one iteration of "while True" in _run, the sleep included
LoopCycle ==
  /\ _task = Some("pending")
  /\ \E order \in Orderings(Present) :
       CountedCycle(_apply_incident_impacts(Fetched(order), _graphs, delay_mapping,
                                            _edge_baselines, _current_multipliers,
                                            _modified_edges))

LoopCycleFetchFails ==
  /\ _task = Some("pending")
  /\ Logged(FetchRaised(_graphs, _edge_baselines, _current_multipliers, _modified_edges))
  /\ Counted(TRUE)

\* IncidentImpactService.start()
StartLoop ==
  /\ _task = None
  /\ _task' = Some("pending")
  /\ UNCHANGED <<graph_vars, bus_vars, store_vars, loop_vars, impacts_current,
                 fetch_failed, route_plan, cycles, build_vars, last_read, member_vars>>

\* IncidentImpactService.stop(): the task is cancelled where it waits
StopLoop ==
  /\ _task # None
  /\ _task' = None
  /\ UNCHANGED <<graph_vars, bus_vars, store_vars, loop_vars, impacts_current,
                 fetch_failed, route_plan, cycles, build_vars, last_read, member_vars>>

(***************************************************************************)
(* FacebookPostService                                                     *)
(***************************************************************************)
Refused(gs, post) == [graphs |-> gs, events |-> <<>>, post |-> post, ok |-> FALSE]

\* update_payload of approve_post, written after update_edge returned
Approved(post, address, baseline_weight, applied_weight, r) ==
  IF r.error # None THEN [graphs |-> r.graphs, events |-> <<>>, post |-> post, ok |-> FALSE]
  ELSE [graphs |-> r.graphs, events |-> r.events, ok |-> TRUE,
        post |-> [approved |-> TRUE, edge |-> Some(address),
                  edge_weight_before |-> Some(baseline_weight),
                  edge_weight_applied |-> Some(applied_weight)]]

PostUpdate(gs, address, weight, event_context) ==
  update_edge(gs, address[1], address[2], address[3], Some(address[4]),
              weight, None, event_context)

ApplyPost(gs, post, post_id, address, baseline_weight, applied_weight) ==
  Approved(post, address, baseline_weight, applied_weight,
           PostUpdate(gs, address, Some(applied_weight),
                      [NoContext EXCEPT !.facebook_post_id = Some(post_id)]))

ApproveEdge(gs, post, post_id, address, baseline_weight) ==
  IF baseline_weight <= 0 THEN Refused(gs, post)
  ELSE ApplyPost(gs, post, post_id, address, baseline_weight,
                 baseline_weight * APPROVED_WEIGHT_MULTIPLIER)

ApproveNear(gs, post, post_id, edge) ==
  IF edge = None THEN Refused(gs, post)
  ELSE ApproveEdge(gs, post, post_id, The(edge).address, The(edge).data.weight)

\* approve_post(post_id) for a post of the index
approve_post(gs, post, latitude, post_id) ==
  IF latitude = None THEN Refused(gs, post)
  ELSE ApproveNear(gs, post, post_id, get_closest_transit_edge(gs, The(latitude)))

Unapproved(post) == [post EXCEPT !.approved = FALSE, !.edge_weight_applied = None]

\* the weight is restored unless update_edge raised KeyError or ValueError
Restored(post, r) ==
  [graphs |-> r.graphs, events |-> r.events, post |-> Unapproved(post), ok |-> TRUE]

\* revoke_post(post_id) for a post of the index
revoke_post(gs, post, post_id) ==
  IF post.edge_weight_before # None /\ The(post.edge_weight_before) > 0
       /\ post.edge # None
  THEN Restored(post, PostUpdate(gs, The(post.edge), post.edge_weight_before,
                                 [NoContext EXCEPT !.facebook_post_id = Some(post_id),
                                                   !.reverted = Some(TRUE)]))
  ELSE [graphs |-> gs, events |-> <<>>, post |-> Unapproved(post), ok |-> TRUE]

\* the graphs, the events and the post after approve_post or revoke_post
Moderated(p, r) ==
  /\ _graphs' = r.graphs
  /\ posts' = [posts EXCEPT ![p] = r.post]
  /\ Publish(r.events)
  /\ UNCHANGED <<bike_accessible, _bike_parkings, _bike_access_radius_m,
                 _subscribers, sent, sub_at, delay_mapping, incidents, loop_vars,
                 impacts_current, fetch_failed, route_plan, task_vars, build_vars, last_read, member_vars>>

\* POST /admin/incidents/posts/{post_id}/approve
ApprovePost(p) ==
  /\ p \in DOMAIN posts
  /\ \A w \in Weights(approve_post(_graphs, posts[p], PostLat[p], p).graphs) : w <= MaxWeight
  /\ Moderated(p, approve_post(_graphs, posts[p], PostLat[p], p))

\* POST /admin/incidents/posts/{post_id}/revoke
RevokePost(p) ==
  /\ p \in DOMAIN posts
  /\ Moderated(p, revoke_post(_graphs, posts[p], p))

(***************************************************************************)
(* WEBSOCKET /transport/graphs/stream                                      *)
(***************************************************************************)
\* accept, subscribe and send the snapshot frame
\* {"type": "snapshot", "graphs": service.graph_snapshot()}
stream_transport_graph(c) ==
  /\ c \notin _subscribers
  /\ _subscribers' = _subscribers \cup {c}
  /\ queues' = [queues EXCEPT ![c] = <<>>]
  /\ sent' = [sent EXCEPT ![c] = <<SnapshotEvent(_graphs)>>]
  /\ sub_at' = [sub_at EXCEPT ![c] = Len(log)]
  /\ UNCHANGED <<graph_vars, log, published, store_vars, loop_vars, impacts_current,
                 fetch_failed, route_plan, task_vars, build_vars, last_read, member_vars>>

\* event = await queue.get(); await websocket.send_json(event)
StreamSend(c) ==
  /\ c \in _subscribers
  /\ queues[c] # <<>>
  /\ queues' = [queues EXCEPT ![c] = Tail(queues[c])]
  /\ sent' = [sent EXCEPT ![c] = Append(sent[c], Head(queues[c]))]
  /\ UNCHANGED <<graph_vars, _subscribers, sub_at, log, published, store_vars, loop_vars,
                 impacts_current, fetch_failed, route_plan, task_vars, build_vars, last_read, member_vars>>

\* WebSocketDisconnect: finally service.unsubscribe(queue)
StreamClose(c) ==
  /\ c \in _subscribers
  /\ _subscribers' = _subscribers \ {c}
  /\ queues' = [queues EXCEPT ![c] = <<>>]
  /\ sent' = [sent EXCEPT ![c] = <<>>]
  /\ sub_at' = [sub_at EXCEPT ![c] = 0]
  /\ UNCHANGED <<graph_vars, log, published, store_vars, loop_vars, impacts_current,
                 fetch_failed, route_plan, task_vars, build_vars, last_read, member_vars>>

(***************************************************************************)
(* GET /transport/routes                                                   *)
(***************************************************************************)
Route(mode, source, target) == [mode |-> mode, source |-> source, target |-> target]

\* the requests: between stops joined directly and through B, to the stop
\* no trip serves, against the direction of the trips, from a stop to
\* itself, from an unknown stop and in an unknown mode
RouteRequests ==
  { Route("bus", "A", "C"), Route("bus", "A", "B"), Route("bus", "B", "C"),
    Route("bus", "A", "D"), Route("bus", "C", "A"), Route("bus", "A", "A"),
    Route("bus", "Z", "A"), Route("tram", "A", "B"),
    Route("walking", "A", "D"), Route("walking", "B", "C") }

\* the response, kept with the request and the graphs it was computed on
Planned(request, response) ==
  /\ route_plan' = Some([request |-> request, graphs |-> _graphs, response |-> response])
  /\ UNCHANGED <<graph_vars, bus_vars, store_vars, loop_vars, impacts_current,
                 fetch_failed, task_vars, build_vars, last_read, member_vars>>

PlanIncidentAwareRoute(request) ==
  \E response \in plan_route_with_incidents(_graphs, request.mode, request.source,
                                             request.target) :
    Planned(request, response)

(***************************************************************************)
(* Specifications                                                          *)
(***************************************************************************)
PatchEdge(patches) ==
  \E p \in patches :
    UpdateEdge(p.mode, p.source, p.target, p.key, p.weight, p.speed_kmh)

PatchNearest ==
  \E latitude \in RequestLatitudes, weight \in RequestWeights :
    UpdateClosestTransitEdge(latitude, weight)

BikeRequest(overrides) ==
  \E locations \in ParkingLists, proximity_override_m \in overrides :
    LoadBikeParkings(locations, proximity_override_m)

\* the incidents an administrator reviews
ModeratedIncidents == {"i1"}

IncidentRequest(ids) ==
  \/ \E i \in ids : ReportIncident(i)
  \/ \E i \in ids \cap ModeratedIncidents : ApproveIncident(i)
  \/ \E i \in ids \cap ModeratedIncidents : RevokeIncident(i)
  \/ PurgeIncidents

PostRequest(ids) ==
  \/ \E p \in ids : ApprovePost(p)
  \/ \E p \in ids : RevokePost(p)

StreamStep ==
  \/ \E c \in Streams : stream_transport_graph(c)
  \/ \E c \in Streams : StreamSend(c)
  \/ \E c \in Streams : StreamClose(c)

\* every operation that writes the graphs, with no stream connected
Next ==
  \/ PatchEdge(EdgePatches)
  \/ PatchNearest
  \/ BikeRequest(RadiusOverrides)
  \/ IncidentRequest(ModeratedIncidents)
  \/ IncidentCycle
  \/ IncidentCycleFetchFails
  \/ PostRequest({"p1", "p3"})

Spec == Init /\ [][Next]_vars

\* the incident loop and the post moderation alone, with every incident
NextImpacts ==
  \/ IncidentRequest(ScenarioIncidents)
  \/ IncidentCycle
  \/ IncidentCycleFetchFails
  \/ PostRequest(PostIds)

SpecImpacts == Init /\ [][NextImpacts]_vars

\* the PATCH requests on one edge, and the streams
StreamPatches ==
  { Patch("bus", "A", "B", Some(<<"T9">>), Some(20), None),
    Patch("bus", "A", "B", Some(<<"T2">>), Some(20), None),
    Patch("bus", "A", "B", Some(<<"T2">>), Some(200), None),
    Patch("walking", "A", "B", Some(WalkKey("A", "B")), None, Some(10)) }

NextStream ==
  \/ PatchEdge(StreamPatches) /\ published' <= MaxLog
  \/ StreamStep

SpecStream == Init /\ [][NextStream]_vars

\* one stream and one request repeated until its queue has overflowed
BusPatches == { Patch("bus", "A", "B", Some(<<"T2">>), Some(20), None) }

NextBus ==
  \/ PatchEdge(BusPatches) /\ published' <= MaxPublished
  \/ stream_transport_graph("c1")
  \/ StreamSend("c1")

SpecBus == Init /\ [][NextBus]_vars

\* route planning between PATCH requests that raise, lower and restore the
\* weights of the bus edges
RoutePatches ==
  { Patch("bus", "A", "B", Some(<<"T1">>), Some(200), None),
    Patch("bus", "A", "B", Some(<<"T1">>), Some(60), None),
    Patch("bus", "A", "B", Some(<<"T2">>), Some(20), None),
    Patch("bus", "A", "B", Some(<<"T2">>), Some(200), None),
    Patch("bus", "A", "C", Some(<<"T3">>), Some(200), None),
    Patch("bus", "B", "C", Some(<<"T1">>), Some(200), None) }

PlanRoute == \E request \in RouteRequests : PlanIncidentAwareRoute(request)

NextRoute ==
  \/ PatchEdge(RoutePatches)
  \/ PlanRoute

SpecRoute == Init /\ [][NextRoute]_vars

\* the incident loop started, stopped and cycling while incidents are
\* reported and moderated. A cycle of the pending task, LoopCycle or
\* LoopCycleFetchFails, is a step that counts a cycle: the sleep of _run ends
\* and the event loop resumes the task.
LoopStep == _task = Some("pending") /\ cycles' = (cycles + 1) % MaxCycles

NextLoop ==
  \/ LoopCycle
  \/ LoopCycleFetchFails
  \/ StartLoop
  \/ StopLoop
  \/ IncidentRequest(ModeratedIncidents)

SpecLoop == Init /\ [][NextLoop]_vars /\ WF_cycles(LoopStep)

\* the incident loop on incidents of several categories near one edge, under
\* the mapping with an entry that is not positive
TargetIncidents == {"i1", "i4", "i5", "i6", "i7", "i8"}

InitTargets == Started({TargetDelayMapping})

NextTargets ==
  \/ \E i \in TargetIncidents : ReportIncident(i)
  \/ PurgeIncidents
  \/ IncidentCycle

SpecTargets == InitTargets /\ [][NextTargets]_vars

\* build_graphs on feeds of every shape: stops apart, stops in two places and
\* stops in one place, with trips over any of the segments
FeedLatitudes ==
  { StopLat,
    [n \in Nodes |-> IF n \in {"A", "B"} THEN 0 ELSE 12],
    [n \in Nodes |-> 0] }

FeedSegments ==
  << [source |-> "A", target |-> "A"], [source |-> "A", target |-> "B"],
     [source |-> "B", target |-> "A"], [source |-> "B", target |-> "C"],
     [source |-> "C", target |-> "D"], [source |-> "A", target |-> "C"] >>

SegmentsAt(places) ==
  SelectSeq(FeedSegments,
            LAMBDA e : \E i \in places : FeedSegments[i] = e)

\* _build_walking_graph at the call of _ensure_connected
Entering(lat, base) ==
  [lat |-> lat, base |-> base, graph |-> WalkingGraphIn(lat, base),
   start |-> WalkingGraphIn(lat, base), running |-> TRUE]

\* TransportGraphService(): self._graphs = {}, then build_graphs
InitBuild ==
  /\ _graphs = [m \in {} |-> <<>>]
  /\ Constructed({INCIDENT_DELAY_MAPPING})
  /\ _task = None
  /\ \E lat \in FeedLatitudes, places \in SUBSET DOMAIN FeedSegments :
       build = Some(Entering(lat, SegmentsAt(places)))
  /\ iterations = 0

Repaired(b) ==
  /\ build' = Some(b)
  /\ iterations' = iterations + 1
  /\ UNCHANGED <<graph_vars, bus_vars, store_vars, loop_vars, impacts_current,
                 fetch_failed, route_plan, task_vars, last_read, member_vars>>

\* an iteration of the loop of _ensure_connected that adds a connector pair
RepairIteration ==
  /\ build # None
  /\ The(build).running
  /\ Components(The(build).graph) > 1
  /\ \E pair \in RepairBest(The(build).graph, The(build).lat) :
       Repaired([The(build) EXCEPT
                   !.graph = RepairedOnce(The(build).graph, The(build).lat, pair,
                                          WALKER_SPEED_KMH, "walking")])

\* the iteration that breaks: "len(components) <= 1" or "best_pair is None"
RepairBreak ==
  /\ build # None
  /\ The(build).running
  /\ Components(The(build).graph) <= 1 \/ RepairBest(The(build).graph, The(build).lat) = {}
  /\ Repaired([The(build) EXCEPT !.running = FALSE])

NextBuild == RepairIteration \/ RepairBreak

\* the loop is straight-line code: while it has not broken, it goes on to
\* its next iteration
RepairStep == build # None /\ The(build).running /\ iterations' = iterations + 1

SpecBuild == InitBuild /\ [][NextBuild]_vars /\ WF_iterations(RepairStep)

\* update_edge called with every kind of argument: an unknown mode, stop,
\* pair and key, no key, weights and speeds of either sign and zero, a speed
\* for an edge without distance_km
EdgeCalls ==
  { Patch("tram", "A", "B", None, Some(20), None),
    Patch("bus", "Z", "B", None, Some(20), None),
    Patch("bus", "A", "Z", None, Some(20), None),
    Patch("bus", "C", "A", None, Some(20), None),
    Patch("bus", "A", "B", Some(<<"T9">>), Some(20), None),
    Patch("bus", "A", "B", None, Some(30), None),
    Patch("bus", "A", "B", Some(<<"T2">>), Some(0), None),
    Patch("bus", "A", "B", None, Some(0 - 5), None),
    Patch("bus", "A", "B", Some(<<"T2">>), None, Some(10)),
    Patch("walking", "A", "B", Some(WalkKey("A", "B")), Some(20), None),
    Patch("walking", "A", "B", Some(WalkKey("A", "B")), None, Some(10)),
    Patch("walking", "A", "B", Some(WalkKey("A", "B")), None, Some(0)),
    Patch("walking", "A", "B", Some(WalkKey("A", "B")), None, Some(0 - 10)) }

\* TransportGraphService.update_edge called by a component of the application
CallUpdateEdge(calls) ==
  \E p \in calls :
    Written(update_edge(_graphs, p.mode, p.source, p.target, p.key, p.weight,
                        p.speed_kmh, NoContext))

\* the points and the weights of the nearest-edge requests
NearestLatitudes == {0, 4, 6, 8, 10, 12, 17, 22}
NearestWeights == {20, 70}

\* TransportGraphService.update_closest_transit_edge called at each point, with
\* weights of either sign
CallUpdateClosest ==
  \E latitude \in NearestLatitudes, weight \in NearestWeights \cup {0, 0 - 5} :
    Written(update_closest_transit_edge(_graphs, latitude, weight))

NextEdges ==
  \/ CallUpdateEdge(EdgeCalls)
  \/ CallUpdateClosest

SpecEdges == Init /\ [][NextEdges]_vars

(***************************************************************************)
(* The read operations of the graph service                                *)
(***************************************************************************)
\* what a read call leaves behind: the stored graphs, the events it put on
\* the subscriber queues, and its return value
ReadOutcome(gs, events, response) ==
  [graphs |-> gs, events |-> events, response |-> response]

\* the edges removed from the graph plan_route_with_incidents was given
CleanInPlace(g) ==
  [graph |-> _graph_without_impacted_edges(g),
   clean_graph |-> _graph_without_impacted_edges(g)]

\* clean_graph = graph.copy(); clean_graph.remove_edges_from(impacted_edges):
\* the graph it was given and the graph it returns
CleanCopy(g) ==
  [graph |-> g, clean_graph |-> _graph_without_impacted_edges(g)]

\* the stored graphs after plan_route_with_incidents: clean_graph is made
\* when the default path has an impacted segment
StoredAfterPlan(gs, mode, response) ==
  IF response.error = None /\ response.incident_detected
  THEN [gs EXCEPT ![mode] = CleanCopy(gs[mode]).graph]
  ELSE gs

PlanRouteRead(gs, request) ==
  { ReadOutcome(StoredAfterPlan(gs, request.mode, response), <<>>, response) :
      response \in plan_route_with_incidents(gs, request.mode, request.source,
                                             request.target) }

\* edge_data = dict(graph[source][target][key]); edge_data.update(...): the
\* address is added to a copy of the payload
ClosestEdgeRead(gs, latitude) ==
  ReadOutcome(gs, <<>>, get_closest_transit_edge(gs, latitude))

\* get_graph(mode): the stored graph, or KeyError
get_graph(gs, mode) ==
  IF mode \in DOMAIN gs THEN [error |-> None, graph |-> gs[mode]]
  ELSE [error |-> Some("KeyError"), graph |-> <<>>]

GetGraphRead(gs, mode) == ReadOutcome(gs, <<>>, get_graph(gs, mode))

\* sorted(self._graphs.keys())
SortedModes == <<"bike", "bus", "walking">>
available_modes(gs) == SelectSeq(SortedModes, LAMBDA m : m \in DOMAIN gs)

AvailableModesRead(gs) == ReadOutcome(gs, <<>>, available_modes(gs))

\* graph_snapshot(mode=...): one graph serialized, every graph with no mode,
\* KeyError for a mode that has no graph
SnapshotOf(gs, mode) ==
  IF mode = None THEN [error |-> None, graphs |-> graph_snapshot(gs)]
  ELSE IF The(mode) \in DOMAIN gs
       THEN [error |-> None,
             graphs |-> [m \in {The(mode)} |-> graph_snapshot(gs)[m]]]
       ELSE [error |-> Some("KeyError"), graphs |-> [m \in {} |-> <<>>]]

GraphSnapshotRead(gs, mode) == ReadOutcome(gs, <<>>, SnapshotOf(gs, mode))

\* the read calls of the requests: routes over the edges the PATCH requests
\* raise, points near and far from the trips, modes with and without a graph
ReadRoutes ==
  { Route("bus", "A", "C"), Route("bus", "A", "B"), Route("bus", "Z", "A"),
    Route("tram", "A", "B") }
ReadLatitudes == {4, 22}
ReadModes == {"bus", "tram"}
ReadOperations ==
  {"plan_route", "get_closest_transit_edge", "graph_snapshot", "available_modes",
   "get_graph"}

ReadsOf(gs, operation) ==
  CASE operation = "plan_route" ->
         UNION {PlanRouteRead(gs, request) : request \in ReadRoutes}
    [] operation = "get_closest_transit_edge" ->
         {ClosestEdgeRead(gs, latitude) : latitude \in ReadLatitudes}
    [] operation = "graph_snapshot" ->
         {GraphSnapshotRead(gs, mode) : mode \in {None} \cup {Some(m) : m \in ReadModes}}
    [] operation = "available_modes" -> {AvailableModesRead(gs)}
    [] operation = "get_graph" -> {GetGraphRead(gs, mode) : mode \in ReadModes}

\* the call made: what it left of the graphs, what it published, and its
\* return value kept with the name of the operation
ReadDone(operation, outcome) ==
  /\ _graphs' = outcome.graphs
  /\ Publish(outcome.events)
  /\ last_read' = [operation |-> operation, response |-> outcome.response]
  /\ UNCHANGED <<bike_accessible, _bike_parkings, _bike_access_radius_m,
                 _subscribers, sent, sub_at, store_vars, loop_vars, impacts_current,
                 fetch_failed, route_plan, task_vars, build_vars, member_vars>>

ReadCall(operation) ==
  \E outcome \in ReadsOf(_graphs, operation) : ReadDone(operation, outcome)

\* the PATCH requests that raise and restore the weight of T1 between A and B
ReadPatches ==
  { Patch("bus", "A", "B", Some(<<"T1">>), Some(200), None),
    Patch("bus", "A", "B", Some(<<"T1">>), Some(60), None),
    Patch("bus", "A", "C", Some(<<"T3">>), Some(200), None) }

\* the reads between PATCH requests, with a stream connected
NextRead ==
  \/ PatchEdge(ReadPatches) /\ published' <= MaxLog
  \/ stream_transport_graph("c1")
  \/ ReadCall("plan_route")
  \/ ReadCall("get_closest_transit_edge")
  \/ ReadCall("graph_snapshot")
  \/ ReadCall("available_modes")
  \/ ReadCall("get_graph")

SpecRead == Init /\ [][NextRead]_vars

(***************************************************************************)
(* Streams that connect and end while an event is being put on the queues  *)
(***************************************************************************)
\* the handler of a stream: not started; subscribed and sending the snapshot
\* frame; in "while True"; returned or raised, after "finally"
Open == {"snapshot", "streaming"}

\* how a stream ends: the client disconnects, send_json raises another
\* exception, the task of the handler is cancelled
Endings == {"WebSocketDisconnect", "RuntimeError", "CancelledError"}

\* a handler whose only clean-up is in "except WebSocketDisconnect"
AfterDisconnectOnly(subscribers, c, ending) ==
  IF ending = "WebSocketDisconnect" THEN subscribers \ {c} ELSE subscribers

\* "finally: service.unsubscribe(queue)", whatever ended the stream
AfterStream(subscribers, c, ending) == subscribers \ {c}

\* await websocket.accept(); queue = service.subscribe(): each stream opens
\* once, its queue is its own
StreamAccept(c) ==
  /\ handlers[c] = "none"
  /\ handlers' = [handlers EXCEPT ![c] = "snapshot"]
  /\ _subscribers' = _subscribers \cup {c}
  /\ sub_at' = [sub_at EXCEPT ![c] = Len(log)]
  /\ UNCHANGED <<graph_vars, queues, sent, log, published, store_vars, loop_vars,
                 impacts_current, fetch_failed, route_plan, task_vars, build_vars,
                 last_read, publishing>>

\* await websocket.send_json({"type": "snapshot", ...})
StreamSnapshot(c) ==
  /\ handlers[c] = "snapshot"
  /\ handlers' = [handlers EXCEPT ![c] = "streaming"]
  /\ sent' = [sent EXCEPT ![c] = <<SnapshotEvent(_graphs)>>]
  /\ UNCHANGED <<graph_vars, _subscribers, queues, sub_at, log, published, store_vars,
                 loop_vars, impacts_current, fetch_failed, route_plan, task_vars,
                 build_vars, last_read, publishing>>

\* event = await queue.get(); await websocket.send_json(event)
StreamEvent(c) ==
  /\ handlers[c] = "streaming"
  /\ queues[c] # <<>>
  /\ queues' = [queues EXCEPT ![c] = Tail(queues[c])]
  /\ sent' = [sent EXCEPT ![c] = Append(sent[c], Head(queues[c]))]
  /\ UNCHANGED <<graph_vars, _subscribers, sub_at, log, published, store_vars, loop_vars,
                 impacts_current, fetch_failed, route_plan, task_vars, build_vars,
                 last_read, member_vars>>

\* an await of the handler raises: the except clause, then the finally clause
StreamEnd(c) ==
  /\ handlers[c] \in Open
  /\ \E ending \in Endings :
       _subscribers' = AfterStream(_subscribers, c, ending)
  /\ handlers' = [handlers EXCEPT ![c] = "ended"]
  /\ UNCHANGED <<graph_vars, queues, sent, sub_at, log, published, store_vars, loop_vars,
                 impacts_current, fetch_failed, route_plan, task_vars, build_vars,
                 last_read, publishing>>

\* a call of _notify_subscribers: its event, the subscribers and the ended
\* streams when it started, the queues it still has to put the event on, the
\* queues it has put it on
Notifying(event, subscribers, ended) ==
  [event |-> event, at_start |-> subscribers, ended_at_start |-> ended,
   pending |-> subscribers, put |-> {}, returned |-> FALSE]

\* update_edge up to "subscribers = list(self._subscribers)": the edge is
\* written and the subscribers are listed; with no subscriber the call
\* returns at once
NotifyStart(p) ==
  /\ IF publishing = None THEN TRUE ELSE The(publishing).returned
  /\ published < MaxLog
  /\ LET r == update_edge(_graphs, p.mode, p.source, p.target, p.key, p.weight,
                          p.speed_kmh, NoContext)
         events == Stamped(r.events, published)
     IN  /\ events # <<>>
         /\ _graphs' = r.graphs
         /\ publishing' = Some(Notifying(events[1], _subscribers,
                                         {c \in Streams : handlers[c] = "ended"}))
         /\ IF _subscribers = {} THEN UNCHANGED <<log, published>>
            ELSE log' = log \o events /\ published' = published + 1
  /\ UNCHANGED <<bike_accessible, _bike_parkings, _bike_access_radius_m, _subscribers,
                 queues, sent, sub_at, store_vars, loop_vars, impacts_current,
                 fetch_failed, route_plan, task_vars, build_vars, last_read, handlers>>

\* one turn of "for queue in subscribers": the queues are taken in the order
\* of the list of a set
NotifyPut ==
  /\ publishing # None
  /\ \E c \in The(publishing).pending :
       /\ queues' = [queues EXCEPT ![c] = PutDropOldest(queues[c], The(publishing).event)]
       /\ publishing' = Some([The(publishing) EXCEPT
                                !.pending = The(publishing).pending \ {c},
                                !.put = The(publishing).put \cup {c}])
  /\ UNCHANGED <<graph_vars, _subscribers, sent, sub_at, log, published, store_vars,
                 loop_vars, impacts_current, fetch_failed, route_plan, task_vars,
                 build_vars, last_read, handlers>>

\* the loop is over and _notify_subscribers returns
NotifyReturn ==
  /\ publishing # None
  /\ ~The(publishing).returned
  /\ The(publishing).pending = {}
  /\ publishing' = Some([The(publishing) EXCEPT !.returned = TRUE])
  /\ UNCHANGED <<graph_vars, bus_vars, store_vars, loop_vars, impacts_current,
                 fetch_failed, route_plan, task_vars, build_vars, last_read, handlers>>

NextMembers ==
  \/ \E p \in BusPatches : NotifyStart(p)
  \/ NotifyPut
  \/ NotifyReturn
  \/ \E c \in Streams : StreamAccept(c)
  \/ \E c \in Streams : StreamSnapshot(c)
  \/ \E c \in Streams : StreamEvent(c)
  \/ \E c \in Streams : StreamEnd(c)

SpecMembers == Init /\ [][NextMembers]_vars

\* load_bike_parkings between PATCH requests on a walking, a bike and a bus
\* edge, with a stream connected or not
BikePatches ==
  { Patch("walking", "A", "B", Some(WalkKey("A", "B")), Some(20), None),
    Patch("bike", "A", "B", Some(WalkKey("A", "B")), Some(30), None),
    Patch("bus", "A", "B", Some(<<"T2">>), Some(20), None) }

NextBike ==
  \/ PatchEdge(BikePatches) /\ published' <= MaxLog
  \/ BikeRequest(RadiusOverrides) /\ published' <= MaxLog
  \/ stream_transport_graph("c1")

SpecBike == Init /\ [][NextBike]_vars

(***************************************************************************)
(* Edge weights and their baselines                                        *)
(***************************************************************************)
\* weight >= default_weight - WEIGHT_EPSILON
AtLeastDefault(weight, default_weight) ==
  (default_weight - weight) * WEIGHT_EPSILON_INV <= 1

EdgesAtLeastDefault(gs) ==
  \A m \in DOMAIN gs : \A i \in DOMAIN gs[m] :
    AtLeastDefault(gs[m][i].weight, gs[m][i].default_weight)

DefaultOf(gs, address) ==
  EdgeOf(gs, address[1], address[2], address[3], address[4]).default_weight

\* the weights saved for a later revert: edge_weight_before of the posts and
\* the baselines of the incident loop
SavedAtLeastDefault ==
  /\ \A p \in PostIds :
       posts[p].edge_weight_before # None =>
         AtLeastDefault(The(posts[p].edge_weight_before),
                        DefaultOf(_graphs, The(posts[p].edge)))
  /\ \A i \in DOMAIN _edge_baselines :
       AtLeastDefault(_edge_baselines[i][2], DefaultOf(_graphs, _edge_baselines[i][1]))

RaisedOnly == EdgesAtLeastDefault(_graphs) /\ SavedAtLeastDefault

\* C1 as stated: in every reachable state every edge has
\* weight >= default_weight - epsilon.  A PATCH request writes any positive
\* weight, so this is violated.
C1_WeightNeverBelowDefault == EdgesAtLeastDefault(_graphs)

\* C1 amended: the graph is built with every weight at its default, and every
\* operation other than the two PATCH requests (update_edge,
\* update_closest_transit_edge) keeps every weight, and every weight saved
\* for a revert, at or above default_weight - epsilon.
C1_OnlyPatchesLower ==
  /\ RaisedOnly
  /\ [][PatchEdge(EdgePatches) \/ PatchNearest \/ (RaisedOnly => RaisedOnly')]_vars

\* a cycle has raised an edge, a post is approved, the bike graph was
\* rebuilt, and no weight is below its default
C1_Witness ==
  /\ RaisedOnly
  /\ _modified_edges # <<>>
  /\ posts["p1"].approved
  /\ _bike_parkings # <<>>
  /\ \E i \in DOMAIN _graphs["bus"] :
       _graphs["bus"][i].weight > _graphs["bus"][i].default_weight

\* the default_weight of every edge of every graph
DefaultWeights(gs) ==
  [m \in DOMAIN gs |->
     {<<gs[m][i].source, gs[m][i].target, gs[m][i].key, gs[m][i].default_weight>> :
        i \in DOMAIN gs[m]}]

\* C2 as stated: no operation changes the default_weight of any edge.
\* load_bike_parkings rebuilds the bike graph, so this is violated.
C2_DefaultWeightNeverChanges ==
  [][DefaultWeights(_graphs)' = DefaultWeights(_graphs)]_vars

\* C2 amended: no operation changes the default_weight of an edge of a
\* graph other than the bike graph, and only load_bike_parkings changes the
\* default_weight of an edge of the bike graph.
C2_OnlyBikeRefreshMovesDefault ==
  [][/\ \A m \in DOMAIN _graphs \ {"bike"} :
          DefaultWeights(_graphs)'[m] = DefaultWeights(_graphs)[m]
     /\ \/ DefaultWeights(_graphs)' = DefaultWeights(_graphs)
        \/ BikeRequest(RadiusOverrides)]_vars

\* weights were written by a PATCH request (by speed_kmh), by a cycle and by
\* an approval, and the defaults of the bus and walking graphs are those of
\* the build
C2_Witness ==
  /\ \E i \in DOMAIN _graphs["walking"] :
       /\ _graphs["walking"][i].speed_kmh = Some(10)
       /\ _graphs["walking"][i].weight # _graphs["walking"][i].default_weight
  /\ _modified_edges # <<>>
  /\ posts["p1"].approved
  /\ DefaultWeights(_graphs)["bus"] = DefaultWeights(BuiltGraphs)["bus"]
  /\ DefaultWeights(_graphs)["bike"] # DefaultWeights(BuiltGraphs)["bike"]

(***************************************************************************)
(* Reverting the impacts                                                   *)
(***************************************************************************)
EdgesAtDefault(gs) ==
  \A m \in DOMAIN gs : \A i \in DOMAIN gs[m] :
    gs[m][i].weight = gs[m][i].default_weight

\* C3 as stated: once the incident index is empty and a cycle has run on it,
\* and no post is approved, every edge has weight = default_weight.
\* Violated: revoke_post restores the weight the edge had when the post was
\* approved, which another approval had already raised.
C3_RevertRestoresDefault ==
  (/\ Present = {}
   /\ impacts_current
   /\ \A p \in PostIds : ~posts[p].approved) => EdgesAtDefault(_graphs)

(***************************************************************************)
(* Events                                                                  *)
(***************************************************************************)
\* C4: in every reachable state, an update_edge call that succeeds returns
\* exactly one edge_updated event carrying the post-image, also when the
\* weight it sets is the weight the edge already has (the graphs are then
\* unchanged), and publishing it adds exactly that event to the queue of
\* every subscriber and to no other queue.
C4_OneEventPerUpdate ==
  \A p \in StreamPatches :
    LET r == update_edge(_graphs, p.mode, p.source, p.target, p.key,
                         p.weight, p.speed_kmh, NoContext)
        before == EdgeOf(_graphs, p.mode, p.source, p.target, The(p.key))
        after == NotifyEach(queues, _subscribers, r.events, published)
    IN  r.error = None =>
          /\ Len(r.events) = 1
          /\ r.events[1].type = "edge_updated"
          /\ r.events[1].edge = r.edge
          /\ The(r.edge) = EdgeOf(r.graphs, p.mode, p.source, p.target, The(p.key))
          /\ p.weight # None => The(r.edge).weight = The(p.weight)
          /\ (p.weight = Some(before.weight)) => r.graphs = _graphs
          /\ \A c \in Streams :
               after[c] = IF c \in _subscribers
                          THEN Append(queues[c], [r.events[1] EXCEPT !.seq = published + 1])
                          ELSE queues[c]

\* two successive update_edge calls with the same weight were made with two
\* streams open: both queues hold the two events, of equal payload
C4_Witness ==
  /\ _subscribers = Streams
  /\ \A c \in Streams :
       /\ Len(queues[c]) >= 2
       /\ queues[c][1].edge = queues[c][2].edge
       /\ queues[c][1].seq + 1 = queues[c][2].seq
       /\ The(queues[c][2].edge) = EdgeOf(_graphs, "bus", "A", "B", <<"T2">>)

\* the frames a stream has sent after the snapshot, and those still queued
Frames(c) == Tail(sent[c]) \o queues[c]

\* what a client makes of a frame
ApplyFrame(gs, frame) ==
  IF frame.type = "snapshot" THEN The(frame.graphs)
  ELSE [gs EXCEPT ![The(frame.edge).mode] = add_edge(gs[The(frame.edge).mode], The(frame.edge))]

RECURSIVE Replay(_, _)
Replay(gs, frames) ==
  IF frames = <<>> THEN gs ELSE Replay(ApplyFrame(gs, Head(frames)), Tail(frames))

\* C7: every open stream has sent the snapshot as its first frame; the frames
\* after it, sent or queued, are the edge_updated events published since the
\* stream subscribed, one per update_edge call, in call order; and applying
\* them to the snapshot gives the graphs as they are now, so each payload is
\* the post-image of its call and no update falls between the subscription
\* and the snapshot.
C7_StreamFanOut ==
  \A c \in _subscribers :
    /\ sent[c] # <<>>
    /\ sent[c][1].type = "snapshot"
    /\ Frames(c) = SubSeq(log, sub_at[c] + 1, Len(log))
    /\ \A k \in DOMAIN Frames(c) : Frames(c)[k].type = "edge_updated"
    /\ Replay(The(sent[c][1].graphs), Frames(c)) = _graphs

\* two streams are open, one of them subscribed after an update, and it has
\* sent the snapshot and two frames and holds a third
C7_Witness ==
  /\ _subscribers = Streams
  /\ \E c \in Streams :
       /\ The(sent[c][1].graphs) # BuiltGraphs
       /\ Len(sent[c]) = 3
       /\ Len(queues[c]) = 1
       /\ sent[c][2] # sent[c][3]

Min(a, b) == IF a < b THEN a ELSE b

\* C5: for every subscriber, the events it has dequeued followed by those it
\* still holds are in the order of their publication, also after the queue
\* has overflowed and dropped events.
C5_PublishOrder ==
  \A c \in _subscribers :
    \A k \in 1..(Len(Frames(c)) - 1) : Frames(c)[k].seq < Frames(c)[k + 1].seq

\* the queue has overflowed, and the stream has since dequeued two events,
\* the first of which is not the first event published
C5_Witness ==
  /\ "c1" \in _subscribers
  /\ published > QUEUE_MAXSIZE
  /\ Len(sent["c1"]) >= 3
  /\ sent["c1"][2].seq > 1
  /\ queues["c1"] # <<>>

\* C6: a subscriber queue never holds more than 128 events; it holds the
\* most recently published events in the order of publication, min(n, 128)
\* of them after n publications without consumption; and a publication
\* always succeeds: on a full queue the oldest event leaves and the new one
\* is enqueued.
C6_BoundedDropOldest ==
  \A c \in _subscribers :
    /\ Len(queues[c]) <= QUEUE_MAXSIZE
    /\ queues[c] = SubSeq(log, Len(log) - Len(queues[c]) + 1, Len(log))
    /\ Len(sent[c]) = 1 => Len(queues[c]) = Min(Len(log) - sub_at[c], QUEUE_MAXSIZE)
    /\ \A p \in BusPatches :
         LET r == update_edge(_graphs, p.mode, p.source, p.target, p.key,
                              p.weight, p.speed_kmh, NoContext)
             event == [r.events[1] EXCEPT !.seq = published + 1]
             after == NotifyEach(queues, _subscribers, r.events, published)[c]
         IN  /\ r.error = None
             /\ after = IF Len(queues[c]) < QUEUE_MAXSIZE
                        THEN Append(queues[c], event)
                        ELSE Append(Tail(queues[c]), event)

\* 130 events were published to a stream that dequeued none: its queue
\* holds the last 128
C6_Witness ==
  /\ "c1" \in _subscribers
  /\ Len(sent["c1"]) = 1
  /\ Len(log) - sub_at["c1"] = QUEUE_MAXSIZE + 2
  /\ Len(queues["c1"]) = QUEUE_MAXSIZE
  /\ queues["c1"][1].seq = sub_at["c1"] + 3

(***************************************************************************)
(* Incident impacts                                                        *)
(***************************************************************************)
\* no post was ever approved: with no PATCH request, the graph is clean but
\* for the incident loop
NoPostApplied == \A p \in PostIds : posts[p] = NewPost

AddressOf(e) == <<e.mode, e.source, e.target, e.key>>

\* the indexed incidents whose nearest transit edge is e
IncidentsOn(e) ==
  {i \in Present :
     /\ IncidentData[i].latitude # None
     /\ get_closest_transit_edge(_graphs, The(IncidentData[i].latitude)) # None
     /\ The(get_closest_transit_edge(_graphs, The(IncidentData[i].latitude))).address
          = AddressOf(e)}

RECURSIVE ScoreSum(_)
ScoreSum(ids) ==
  IF ids = {} THEN 0
  ELSE LET i == CHOOSE x \in ids : TRUE
       IN  IncidentData[i].reporter_social_score + ScoreSum(ids \ {i})

TransitEdges == {_graphs["bus"][k] : k \in DOMAIN _graphs["bus"]}

\* C8 as stated, for the delay mapping as checked in: after a cycle on a
\* clean graph, an edge whose incidents are all non-approved Traffic
\* incidents has its baseline weight while their reporter_social_score sum
\* is below the threshold, and 1.5 times its baseline weight once the sum
\* reaches the threshold.  Violated: the loop reads no score and the mapping
\* has no Traffic entry.
C8_ThresholdGatedTraffic ==
  \A e \in TransitEdges :
    (/\ impacts_current
     /\ NoPostApplied
     /\ delay_mapping = INCIDENT_DELAY_MAPPING
     /\ IncidentsOn(e) # {}
     /\ \A i \in IncidentsOn(e) :
          IncidentData[i].category = "Traffic" /\ incidents[i] = "reported")
    => IF ScoreSum(IncidentsOn(e)) >= SOCIAL_SCORE_THRESHOLD
       THEN e.weight = RatMul(e.default_weight, ScenarioDelayMapping["Traffic"])
       ELSE e.weight = e.default_weight

\* C9 as stated, for the delay mapping as checked in: after a cycle on a
\* clean graph, the nearest transit edge of a non-approved Crush incident
\* has a weight of at least 1e13 (10^7 * 10^6).  Violated: the mapping has
\* no Crush entry.
C9_CrushBlocks ==
  \A e \in TransitEdges :
    (/\ impacts_current
     /\ NoPostApplied
     /\ delay_mapping = INCIDENT_DELAY_MAPPING
     /\ \E i \in IncidentsOn(e) :
          IncidentData[i].category = "Crush" /\ incidents[i] = "reported")
    => e.weight \div 10000000 >= 1000000

\* C10 as stated, for the delay mapping as checked in: after a cycle on a
\* clean graph, the edge of a single Traffic incident whose score is below
\* the threshold has 1.5 times its baseline weight while the incident is
\* approved, and its baseline weight while it is not (before the approval
\* and after its revocation).  Violated: the loop never reads approved.
C10_ApprovalElevates ==
  \A e \in TransitEdges : \A i \in IncidentIds :
    (/\ impacts_current
     /\ NoPostApplied
     /\ delay_mapping = INCIDENT_DELAY_MAPPING
     /\ IncidentsOn(e) = {i}
     /\ IncidentData[i].category = "Traffic"
     /\ IncidentData[i].reporter_social_score < SOCIAL_SCORE_THRESHOLD)
    => IF incidents[i] = "approved"
       THEN e.weight = RatMul(e.default_weight, ScenarioDelayMapping["Traffic"])
       ELSE e.weight = e.default_weight

(***************************************************************************)
(* Route planning                                                          *)
(***************************************************************************)
\* what the claim says of a response on graphs with every weight at default
BaselineResponse(response) ==
  response.error = None =>
    /\ response.incident_detected = FALSE
    /\ response.suggested_path = None
    /\ The(response.default_path).total_current_weight
         = The(response.default_path).total_default_weight

\* C11: on graphs on which every weight is the default_weight (as after
\* construction), every response plan_route gives, for every request, has
\* incident_detected = false, no suggested_path and
\* total_current_weight = total_default_weight; so has the response last
\* given, when the graphs it was computed on had every weight at default.
C11_UnmodifiedNoSuggestion ==
  /\ EdgesAtDefault(_graphs) =>
       \A q \in RouteRequests :
         \A response \in plan_route_with_incidents(_graphs, q.mode, q.source, q.target) :
           BaselineResponse(response)
  /\ (route_plan # None /\ EdgesAtDefault(The(route_plan).graphs)) =>
       BaselineResponse(The(route_plan).response)

\* a route of three segments was planned on the walking graph as built
C11_Witness ==
  /\ route_plan # None
  /\ The(route_plan).graphs = BuiltGraphs
  /\ The(route_plan).request = Route("walking", "A", "D")
  /\ The(route_plan).response.error = None
  /\ Len(The(The(route_plan).response.default_path).segments) = 3
  /\ The(The(route_plan).response.default_path).total_default_weight = 440

\* C12 as stated: every segment of a suggested_path has impacted = false.
\* Violated: the alternative is searched on the graph without the impacted
\* edges, but its segments are resolved on the full graph, where the edge of
\* least default_weight between two stops can be an impacted one.
C12_SuggestedAvoidsImpacted ==
  (/\ route_plan # None
   /\ The(route_plan).response.error = None
   /\ The(route_plan).response.suggested_path # None)
  => \A i \in DOMAIN The(The(route_plan).response.suggested_path).segments :
       ~The(The(route_plan).response.suggested_path).segments[i].impacted

(***************************************************************************)
(* The nearest transit edge                                                *)
(***************************************************************************)
\* the modes whose graph differs between two stores
ModesChanged(gs, after) == {m \in DOMAIN gs : after[m] # gs[m]}

\* C13: with the walking and bike graphs next to a transit graph, for every
\* point the edge get_closest_transit_edge returns is an edge of a mode other
\* than walking and bike, and update_closest_transit_edge writes no edge of
\* the walking or bike graph.
C13_NearestIsTransit ==
  ({"walking", "bike"} \subseteq DOMAIN _graphs /\ DOMAIN _graphs \ {"walking", "bike"} # {})
  => \A latitude \in NearestLatitudes :
       /\ get_closest_transit_edge(_graphs, latitude) # None
       /\ The(get_closest_transit_edge(_graphs, latitude)).address[1] \notin {"walking", "bike"}
       /\ \A weight \in RequestWeights :
            /\ update_closest_transit_edge(_graphs, latitude, weight).error = None
            /\ ModesChanged(_graphs, update_closest_transit_edge(_graphs, latitude, weight).graphs)
                 \cap {"walking", "bike"} = {}

\* PATCH /transport/graphs/nearest has written the bus edge from A to B, and
\* at stop D, where the walking connector from C is nearer than any bus edge,
\* the nearest transit edge is the bus edge from B to C
C13_Witness ==
  /\ EdgeOf(_graphs, "bus", "A", "B", <<"T1">>).weight = 20
  /\ Len(_graphs["bike"]) > 0
  /\ The(get_closest_transit_edge(_graphs, 22)).address = <<"bus", "B", "C", <<"T1">>>>
  /\ \E i \in DOMAIN _graphs["walking"] :
       /\ _graphs["walking"][i].source = "C" /\ _graphs["walking"][i].target = "D"
       /\ _haversine_km(22, (StopLat["C"] + StopLat["D"]) \div 2)
            < The(get_closest_transit_edge(_graphs, 22)).distance_to_point_km

(***************************************************************************)
(* Connectivity of the built graphs                                        *)
(***************************************************************************)
\* nx.is_weakly_connected over the stops every graph holds as nodes
WeaklyConnected(g) == FirstComponent(g) = Nodes

\* C14 as stated: every graph of the store, the transit graphs as well as the
\* walking and bike graphs, has exactly one weakly connected component over
\* the stops.
\* Violated: _build_transit_graphs adds every stop to every transit graph and
\* joins only the stops consecutive in a trip of the mode; _ensure_connected
\* runs on the walking and bike graphs alone.
C14_EveryGraphConnected ==
  \A mode \in DOMAIN _graphs : WeaklyConnected(_graphs[mode])

(***************************************************************************)
(* Rejected weights                                                        *)
(***************************************************************************)
\* the weight update_edge resolves for a call on an edge that exists: the one
\* given, or the one derived from speed_kmh
ResolvedWeight(gs, p) ==
  IF p.speed_kmh = None THEN p.weight
  ELSE IF The(ResolveEdge(get_edge_data(gs[p.mode], p.source, p.target), p.key)).distance_km = None
          \/ The(p.speed_kmh) = 0
       THEN None
       ELSE Some(_travel_time_seconds(
                   The(The(ResolveEdge(get_edge_data(gs[p.mode], p.source, p.target),
                                       p.key)).distance_km),
                   The(p.speed_kmh)))

\* the calls that address an edge of the store
CallsOnEdges(gs) ==
  {p \in EdgeCalls :
     /\ p.mode \in DOMAIN gs
     /\ get_edge_data(gs[p.mode], p.source, p.target) # <<>>
     /\ ResolveEdge(get_edge_data(gs[p.mode], p.source, p.target), p.key) # None}

SameWeights(gs, after) ==
  \A mode \in DOMAIN gs :
    /\ Len(after[mode]) = Len(gs[mode])
    /\ \A i \in DOMAIN gs[mode] :
         /\ after[mode][i].weight = gs[mode][i].weight
         /\ after[mode][i].default_weight = gs[mode][i].default_weight

\* C15: update_edge and update_closest_transit_edge raise ValueError (the
\* InvalidWeight of the contract) whenever the weight they resolve, given or
\* derived from speed_kmh, is not strictly positive, and write no weight then;
\* every edge of every graph has weight > 0 and default_weight > 0.
C15_WeightStrictlyPositive ==
  /\ \A mode \in DOMAIN _graphs : \A i \in DOMAIN _graphs[mode] :
       _graphs[mode][i].weight > 0 /\ _graphs[mode][i].default_weight > 0
  /\ \A p \in CallsOnEdges(_graphs) :
       (ResolvedWeight(_graphs, p) # None /\ The(ResolvedWeight(_graphs, p)) <= 0)
       => /\ update_edge(_graphs, p.mode, p.source, p.target, p.key, p.weight,
                         p.speed_kmh, NoContext).error = Some("ValueError")
          /\ update_edge(_graphs, p.mode, p.source, p.target, p.key, p.weight,
                         p.speed_kmh, NoContext).events = <<>>
          /\ SameWeights(_graphs,
                         update_edge(_graphs, p.mode, p.source, p.target, p.key, p.weight,
                                     p.speed_kmh, NoContext).graphs)
  /\ \A latitude \in NearestLatitudes, weight \in {0, 0 - 5} :
       /\ update_closest_transit_edge(_graphs, latitude, weight).error = Some("ValueError")
       /\ update_closest_transit_edge(_graphs, latitude, weight).graphs = _graphs

\* a weight derived from a speed has been written to the walking edge from A
\* to B, the nearest edge has been given a weight, and there the calls with
\* weight 0, with a negative weight and with a negative speed are refused
C15_Witness ==
  /\ EdgeOf(_graphs, "walking", "A", "B", WalkKey("A", "B")).speed_kmh = Some(10)
  /\ EdgeOf(_graphs, "walking", "A", "B", WalkKey("A", "B")).weight = 80
  /\ EdgeOf(_graphs, "bus", "A", "B", <<"T1">>).weight = 20
  /\ Cardinality({p \in CallsOnEdges(_graphs) :
                     /\ ResolvedWeight(_graphs, p) # None
                     /\ The(ResolvedWeight(_graphs, p)) <= 0}) = 3

(***************************************************************************)
(* Unknown modes and edges                                                 *)
(***************************************************************************)
\* the call is refused with KeyError and leaves the store as it was
RefusedUnknown(gs, r) ==
  r.error = Some("KeyError") /\ r.graphs = gs /\ r.events = <<>> /\ r.edge = None

\* the places of the edges from source to target in the graph, which keeps the
\* edges of a pair in the order of their insertion
PairIndex(g, source, target) ==
  {i \in DOMAIN g : g[i].source = source /\ g[i].target = target}

FirstInserted(g, source, target) ==
  CHOOSE i \in PairIndex(g, source, target) :
    \A j \in PairIndex(g, source, target) : i <= j

\* the call wrote its weight to the edge at place i and to no other edge
WroteOnlyAt(gs, p, i, r) ==
  /\ r.error = None
  /\ The(r.edge).key = gs[p.mode][i].key
  /\ r.graphs[p.mode][i] = [gs[p.mode][i] EXCEPT !.weight = The(p.weight)]
  /\ \A mode \in DOMAIN gs : \A k \in DOMAIN gs[mode] :
       (mode # p.mode \/ k # i) => r.graphs[mode][k] = gs[mode][k]

UnknownOrFirst(gs, p, r) ==
  /\ p.mode \notin DOMAIN gs => RefusedUnknown(gs, r)
  /\ (/\ p.mode \in DOMAIN gs
      /\ \/ p.source \notin Nodes
         \/ p.target \notin Nodes
         \/ PairIndex(gs[p.mode], p.source, p.target) = {}
         \/ /\ p.key # None
            /\ \A i \in PairIndex(gs[p.mode], p.source, p.target) :
                 gs[p.mode][i].key # The(p.key))
     => RefusedUnknown(gs, r)
  /\ (/\ p.mode \in DOMAIN gs
      /\ PairIndex(gs[p.mode], p.source, p.target) # {}
      /\ p.key = None /\ p.weight # None /\ p.speed_kmh = None
      /\ The(p.weight) > 0)
     => WroteOnlyAt(gs, p, FirstInserted(gs[p.mode], p.source, p.target), r)

\* C16: update_edge raises KeyError (UnknownMode) when the mode has no graph
\* and KeyError (UnknownEdge) when the source, the target, the pair or the
\* given key does not exist, changing nothing; a call without key on a pair
\* that exists writes the first-inserted edge of the pair and no other.
C16_UnknownModeAndEdge ==
  \A p \in EdgeCalls :
    UnknownOrFirst(_graphs, p,
                   update_edge(_graphs, p.mode, p.source, p.target, p.key, p.weight,
                               p.speed_kmh, NoContext))

\* the call without key has written trip T1, the first inserted between A and
\* B, and left trip T2 alone
C16_Witness ==
  /\ EdgeOf(_graphs, "bus", "A", "B", <<"T1">>).weight = 30
  /\ EdgeOf(_graphs, "bus", "A", "B", <<"T2">>).weight = 80
  /\ FirstInserted(_graphs["bus"], "A", "B") = 1
  /\ \E p \in EdgeCalls : p.mode \notin DOMAIN _graphs
  /\ \E p \in EdgeCalls : p.mode = "bus" /\ PairIndex(_graphs["bus"], p.source, p.target) = {}

(***************************************************************************)
(* A cycle whose fetch fails                                               *)
(***************************************************************************)
\* C17: the cycle in which the fetch of the incidents fails changes no edge
\* of any graph, no recorded multiplier and no baseline, and publishes no
\* event; the edges the cycle before impacted stay impacted.
C17_FailedFetchChangesNothing ==
  [][(~fetch_failed /\ fetch_failed')
     => UNCHANGED <<_graphs, _edge_baselines, _current_multipliers, _modified_edges,
                    queues, log, published>>]_vars

\* the fetch failed after a cycle had raised the weight of an edge, which is
\* still raised and still recorded with its multiplier
C17_Witness ==
  /\ fetch_failed
  /\ _modified_edges # <<>>
  /\ Len(_current_multipliers) > 0
  /\ ~EdgesAtDefault(_graphs)

(***************************************************************************)
(* The pair (weight, speed_kmh) of an edge                                 *)
(***************************************************************************)
\* the edge got another speed_kmh and its weight is not the one derived from it
SpeedWithoutWeight(before, after) ==
  /\ after.speed_kmh # before.speed_kmh
  /\ after.speed_kmh # None
  /\ after.distance_km # None
  /\ after.weight # _travel_time_seconds(The(after.distance_km), The(after.speed_kmh))

\* C18 as stated: what a reader finds after any single update_edge is the edge
\* as it was or the edge with both speed_kmh and the weight derived from it,
\* never the new speed_kmh next to the old weight.
\* Violated: update_edge assigns speed_kmh to the payload of the graph before
\* it checks the derived weight, so the call it refuses for a weight that is
\* not positive leaves the new speed_kmh with the old weight.
C18_NoTornPair ==
  [][\A mode \in DOMAIN _graphs : \A i \in DOMAIN _graphs[mode] :
       ~SpeedWithoutWeight(_graphs[mode][i], _graphs'[mode][i])]_vars

(***************************************************************************)
(* Calls on one edge, one after the other                                  *)
(***************************************************************************)
\* the events the step has published
NewEvents == SubSeq(log', Len(log) + 1, Len(log'))

\* the event is the edge as the store holds it after the step
IsPostImage(event, gs) ==
  /\ event.edge # None
  /\ The(event.edge).mode \in DOMAIN gs
  /\ EdgeIndex(gs[The(event.edge).mode], The(event.edge).source, The(event.edge).target,
               The(event.edge).key) # {}
  /\ The(event.edge) = EdgeOf(gs, The(event.edge).mode, The(event.edge).source,
                              The(event.edge).target, The(event.edge).key)

\* C19: the update_edge calls on one edge take effect one after the other:
\* each step publishes at most one edge_updated event, which carries the edge
\* as that call left it, and with a subscriber connected no call changes an
\* edge without publishing its event, so that the weight of the edge is the
\* weight of the event published last for it.
C19_WritesSerialized ==
  [][/\ Len(NewEvents) <= 1
     /\ \A k \in DOMAIN NewEvents :
          NewEvents[k].type = "edge_updated" => IsPostImage(NewEvents[k], _graphs')
     /\ (_subscribers # {} /\ _graphs' # _graphs) => Len(NewEvents) = 1]_vars

\* the two calls on trip T2 between A and B, with weights 20 and 200, have
\* been published one after the other and the edge has the weight of the later
C19_Witness ==
  \E j \in DOMAIN log : \E k \in DOMAIN log :
    /\ j < k
    /\ log[j].type = "edge_updated" /\ log[k].type = "edge_updated"
    /\ The(log[j].edge).key = <<"T2">> /\ The(log[k].edge).key = <<"T2">>
    /\ The(log[j].edge).weight # The(log[k].edge).weight
    /\ \A l \in DOMAIN log : l > k => The(log[l].edge).key # <<"T2">>
    /\ EdgeOf(_graphs, "bus", "A", "B", <<"T2">>).weight = The(log[k].edge).weight

(***************************************************************************)
(* Writing the nearest edge and reading it back                            *)
(***************************************************************************)
\* the lookup at the point after the update finds the edge the lookup before
\* found, with the weight of the update
ReadBack(gs, latitude, weight, r) ==
  r.error = None
  => /\ get_closest_transit_edge(r.graphs, latitude) # None
     /\ The(get_closest_transit_edge(r.graphs, latitude)).address
          = The(get_closest_transit_edge(gs, latitude)).address
     /\ The(get_closest_transit_edge(r.graphs, latitude)).data.weight = weight
     /\ The(get_closest_transit_edge(r.graphs, latitude)).data = The(r.edge)
     /\ The(get_closest_transit_edge(r.graphs, latitude)).distance_to_point_km
          = The(get_closest_transit_edge(gs, latitude)).distance_to_point_km

\* C20: after update_closest_transit_edge(lat, w) succeeded,
\* get_closest_transit_edge(lat) returns the edge of the same mode, source,
\* target and key as before the update, with weight w; whatever weights the
\* edges have, the nearest edge of a point is the one of the built graphs.
C20_NearestRoundTrip ==
  \A latitude \in NearestLatitudes :
    /\ The(get_closest_transit_edge(_graphs, latitude)).address
         = The(get_closest_transit_edge(BuiltGraphs, latitude)).address
    /\ \A weight \in NearestWeights :
         ReadBack(_graphs, latitude, weight,
                  update_closest_transit_edge(_graphs, latitude, weight))

\* the nearest edge of stop D, the bus edge from B to C, was the cheapest
\* transit edge and has been given weight 70, which the lookup returns; the
\* cheapest transit edge is now another one
C20_Witness ==
  /\ The(get_closest_transit_edge(BuiltGraphs, 22)).data.weight = 40
  /\ The(get_closest_transit_edge(_graphs, 22)).address = <<"bus", "B", "C", <<"T1">>>>
  /\ The(get_closest_transit_edge(_graphs, 22)).data.weight = 70
  /\ \E i \in DOMAIN _graphs["bus"] : _graphs["bus"][i].weight < 70

(***************************************************************************)
(* Loading the bike parkings twice                                         *)
(***************************************************************************)
\* the second of two equal calls leaves the store the first one left
SameAgain(first, locations, proximity_override_m) ==
  load_bike_parkings(first.graphs, first.radius_m, locations, proximity_override_m) = first

\* C21: load_bike_parkings(L) followed by load_bike_parkings(L) leaves the
\* bike graph (the flags of the nodes, the edges with their keys, weights,
\* default weights and speeds), and every other graph, as the first call
\* left them.
C21_LoadBikeParkingsIdempotent ==
  \A locations \in ParkingLists, proximity_override_m \in RadiusOverrides :
    SameAgain(load_bike_parkings(_graphs, _bike_access_radius_m, locations,
                                 proximity_override_m),
              locations, proximity_override_m)

\* parkings are loaded and stops in their reach are joined at the speed of a
\* bike, others at the speed of a walker; the walking graph holds a patched
\* edge; loading the same parkings again leaves the store as it is
C21_Witness ==
  /\ _bike_parkings # <<>>
  /\ \E i \in DOMAIN _graphs["bike"] : _graphs["bike"][i].speed_kmh = Some(BIKE_SPEED_KMH)
  /\ \E i \in DOMAIN _graphs["bike"] : _graphs["bike"][i].speed_kmh = Some(WALKER_SPEED_KMH)
  /\ \E i \in DOMAIN _graphs["walking"] : _graphs["walking"][i].speed_kmh = Some(10)
  /\ load_bike_parkings(_graphs, _bike_access_radius_m, _bike_parkings, None).graphs = _graphs

(***************************************************************************)
(* Route requests that are refused                                         *)
(***************************************************************************)
\* the stops reached from the stops seen along edges in their direction
RECURSIVE Descendants(_, _)
Descendants(g, seen) ==
  IF seen \cup {g[i].target : i \in {j \in DOMAIN g : g[j].source \in seen}} = seen
  THEN seen
  ELSE Descendants(g, seen \cup {g[i].target : i \in {j \in DOMAIN g : g[j].source \in seen}})

\* every response to the request is the error, or none is
AllRefused(responses, error) == \A r \in responses : r = RouteError(error)
NoneRefused(responses) == \A r \in responses : r.error = None /\ r.default_path # None

RefusedWhenUnreachable(gs, q, responses) ==
  /\ (q.source \notin Nodes \/ q.target \notin Nodes) => AllRefused(responses, "ValueError")
  /\ (/\ q.source \in Nodes /\ q.target \in Nodes
      /\ q.target \notin Descendants(gs[q.mode], {q.source}))
     => AllRefused(responses, "ValueError")
  /\ (/\ q.source \in Nodes /\ q.target \in Nodes
      /\ q.target \in Descendants(gs[q.mode], {q.source}))
     => NoneRefused(responses)

\* C22: plan_route_with_incidents raises ValueError (BadRequest) when the
\* source or the target is not a node of the graph of the mode, and ValueError
\* (NoPath) when no path leads from the source to the target along the edges
\* in their direction, and answers otherwise; a route request changes no
\* graph and publishes no event.
C22_RouteRefusals ==
  /\ [](\A q \in RouteRequests :
         q.mode \in DOMAIN _graphs
         => RefusedWhenUnreachable(_graphs, q,
              plan_route_with_incidents(_graphs, q.mode, q.source, q.target)))
  /\ [][route_plan' # route_plan => UNCHANGED <<graph_vars, bus_vars, loop_vars>>]_vars

\* after PATCH requests have raised weights, the requests from C to A, against
\* the direction of the trips, is recorded as refused, and those to stop D and
\* from stop Z would be
C22_Witness ==
  /\ route_plan # None
  /\ The(route_plan).request = Route("bus", "C", "A")
  /\ The(route_plan).response = RouteError("ValueError")
  /\ The(route_plan).graphs = _graphs
  /\ ~EdgesAtDefault(_graphs)
  /\ "A" \in Descendants(_graphs["walking"], {"C"})
  /\ AllRefused(plan_route_with_incidents(_graphs, "bus", "A", "D"), "ValueError")
  /\ AllRefused(plan_route_with_incidents(_graphs, "bus", "Z", "A"), "ValueError")

(***************************************************************************)
(* The incident loop keeps cycling                                         *)
(***************************************************************************)
\* C23: no cycle ends the task of the loop, whether its fetch or its updates
\* raised: the task is pending until stop() cancels it, and from every state
\* in which the task exists a further cycle follows unless stop() is called.
C23_LoopKeepsCycling ==
  /\ [](_task \in {None, Some("pending")})
  /\ \A n \in 0..(MaxCycles - 1) :
       (_task # None /\ cycles = n) ~> (cycles # n \/ _task = None)

\* the loop has run MaxCycles cycles, the last of which logged a failed fetch
\* after an earlier one had raised an edge, and its task is pending
C23_Witness ==
  /\ _task = Some("pending")
  /\ cycles = 0
  /\ fetch_failed
  /\ impacts_current
  /\ _modified_edges # <<>>

(***************************************************************************)
(* Impacts do not compound                                                 *)
(***************************************************************************)
\* the cycle that follows a cycle, on the incidents listed in some order
CycleAfter(fetched, r) ==
  _apply_incident_impacts(fetched, r.graphs, delay_mapping, r.baselines, r.multipliers,
                          r.modified)

\* the second cycle changes nothing the first one left and has no event
NothingMore(first, second) == second = [first EXCEPT !.events = <<>>]

\* every edge the cycle gave another multiplier than it had, other than 1,
\* has baseline * multiplier
AtBaselineTimes(before, r) ==
  \A i \in DOMAIN r.multipliers :
    (/\ r.multipliers[i][2] # ONE
     /\ r.multipliers[i][2] # DictGet(before, r.multipliers[i][1], ONE))
    => /\ DictHas(r.baselines, r.multipliers[i][1])
       /\ EdgeOf(r.graphs, r.multipliers[i][1][1], r.multipliers[i][1][2],
                 r.multipliers[i][1][3], r.multipliers[i][1][4]).weight
            = RatMul(DictGet(r.baselines, r.multipliers[i][1], 0), r.multipliers[i][2])

NoCompounding(before, first, orders) ==
  ~first.raised
  => /\ AtBaselineTimes(before, first)
     /\ \A again \in orders : NothingMore(first, CycleAfter(Fetched(again), first))

\* C24: when a cycle is followed by a cycle on the same incidents, listed in
\* any order, the first leaves each edge it gives a multiplier m at
\* baseline * m and the second writes no edge, records no other multiplier
\* and has no event.
C24_ImpactsDoNotCompound ==
  \A order \in Orderings(Present) :
    NoCompounding(_current_multipliers,
                  _apply_incident_impacts(Fetched(order), _graphs, delay_mapping,
                                          _edge_baselines, _current_multipliers,
                                          _modified_edges),
                  Orderings(Present))

\* a cycle has raised an edge above its baseline and the incidents it saw are
\* still the ones indexed: the next cycle sees the same target
C24_Witness ==
  /\ impacts_current
  /\ ~fetch_failed
  /\ _modified_edges # <<>>
  /\ \E i \in DOMAIN _current_multipliers :
       /\ _current_multipliers[i][2] # ONE
       /\ RatLess(ONE, _current_multipliers[i][2])
       /\ EdgeOf(_graphs, _current_multipliers[i][1][1], _current_multipliers[i][1][2],
                 _current_multipliers[i][1][3], _current_multipliers[i][1][4]).weight
            > DictGet(_edge_baselines, _current_multipliers[i][1], 0)

(***************************************************************************)
(* The impact state of an edge                                             *)
(***************************************************************************)
EdgeKeys(gs) == UNION {{AddressOf(gs[m][k]) : k \in DOMAIN gs[m]} : m \in DOMAIN gs}

\* the events of a cycle that are about the edge
EventsOn(events, edge_key) ==
  SelectSeq(events, LAMBDA e : e.edge # None /\ AddressOf(The(e.edge)) = edge_key)

DataOf(gs, edge_key) == EdgeOf(gs, edge_key[1], edge_key[2], edge_key[3], edge_key[4])

\* the one event of a transition: edge_updated, with the written edge and
\* the new multiplier
OneEventOf(on, data, multiplier) ==
  /\ Len(on) = 1
  /\ on[1].type = "edge_updated"
  /\ on[1].context.multiplier = Some(multiplier)
  /\ The(on[1].edge).weight = data.weight

\* what a cycle does to one edge that had multiplier m and has m2 after it
EdgeTransition(edge_key, m, m2, gs, r) ==
  IF m = m2
  THEN /\ DataOf(r.graphs, edge_key) = DataOf(gs, edge_key)
       /\ EventsOn(r.events, edge_key) = <<>>
  ELSE /\ m2 = ONE \/ RatLess(ONE, m2)
       /\ DictHas(r.baselines, edge_key)
       /\ DataOf(r.graphs, edge_key).weight
            = IF m2 = ONE THEN DictGet(r.baselines, edge_key, 0)
              ELSE RatMul(DictGet(r.baselines, edge_key, 0), m2)
       /\ OneEventOf(EventsOn(r.events, edge_key), DataOf(r.graphs, edge_key), m2)

CycleTransitions(gs, multipliers, r) ==
  /\ ~r.raised
  /\ \A i \in DOMAIN r.events : r.events[i].type = "edge_updated"
  /\ \A i \in DOMAIN r.multipliers : r.multipliers[i][1] \in EdgeKeys(gs)
  /\ \A edge_key \in EdgeKeys(gs) :
       EdgeTransition(edge_key, DictGet(multipliers, edge_key, ONE),
                      DictGet(r.multipliers, edge_key, ONE), gs, r)

\* C25: in every cycle, on the incidents listed in any order, an edge whose
\* multiplier goes from m to another m' (1 standing for Clean) ends at
\* baseline * m', or at its baseline when m' is 1, with exactly one
\* edge_updated event of the cycle about it, carrying m'; an edge whose
\* multiplier stays is not written and has no event; the cycle has no other
\* event, and a multiplier is 1 or larger than 1.
C25_EdgeImpactTransitions ==
  \A order \in Orderings(Present) :
    CycleTransitions(_graphs, _current_multipliers,
                     _apply_incident_impacts(Fetched(order), _graphs, delay_mapping,
                                             _edge_baselines, _current_multipliers,
                                             _modified_edges))

\* the next cycle takes an edge from one multiplier to a smaller one, both
\* above 1
C25_Witness ==
     \E i \in DOMAIN _current_multipliers :
       /\ _current_multipliers[i][2] = <<4, 1>>
       /\ DataOf(_graphs, _current_multipliers[i][1]).weight = 240
       /\ \E order \in Orderings(Present) :
            DictGet(_apply_incident_impacts(Fetched(order), _graphs, delay_mapping,
                                            _edge_baselines, _current_multipliers,
                                            _modified_edges).multipliers,
                    _current_multipliers[i][1], ONE) = <<3, 2>>

(***************************************************************************)
(* The target multiplier of an edge                                        *)
(***************************************************************************)
\* the indexed incidents that have coordinates, a category of the mapping
\* with a multiplier in the set, and the edge as their nearest transit edge
Contributing(edge_key, mapping, multipliers) ==
  {i \in Present :
     /\ IncidentData[i].category \in DOMAIN mapping
     /\ mapping[IncidentData[i].category] \in multipliers
     /\ IncidentData[i].latitude # None
     /\ get_closest_transit_edge(_graphs, The(IncidentData[i].latitude)) # None
     /\ The(get_closest_transit_edge(_graphs, The(IncidentData[i].latitude))).address
          = edge_key}

Largest(ms) == CHOOSE m \in ms : \A n \in ms : ~RatLess(m, n)

\* the multiplier of the edge after the cycle is the largest of the incidents'
LargestApplied(edge_key, mapping, ids, r) ==
  DictGet(r.multipliers, edge_key, ONE)
    = IF ids = {} THEN ONE ELSE Largest({mapping[IncidentData[i].category] : i \in ids})

EveryLargest(mapping, multipliers, r) ==
  \A edge_key \in EdgeKeys(_graphs) :
    LargestApplied(edge_key, mapping, Contributing(edge_key, mapping, multipliers), r)

Positive(mapping) == {m \in {mapping[c] : c \in DOMAIN mapping} : m[1] > 0}

AboveOne(mapping) == {m \in {mapping[c] : c \in DOMAIN mapping} : RatLess(ONE, m)}

\* C26 as stated: after a cycle, on the incidents listed in any order, each
\* edge has the largest multiplier of the indexed incidents nearest to it
\* that have coordinates and a category of positive multiplier, and
\* multiplier 1 when there is none.  Violated: an incident of multiplier 0.5
\* alone leaves its edge at 1.
C26_LargestOfPositive ==
  \A order \in Orderings(Present) :
    EveryLargest(delay_mapping, Positive(delay_mapping),
                 _apply_incident_impacts(Fetched(order), _graphs, delay_mapping,
                                           _edge_baselines, _current_multipliers,
                                           _modified_edges))

\* C26: after a cycle, on the incidents listed in any order, each edge has
\* the largest multiplier of the indexed incidents nearest to it that have
\* coordinates and a category of multiplier above 1, and multiplier 1 when
\* there is none: an incident of unknown category, of multiplier at most 1
\* or without coordinates contributes nothing.
C26_LargestAboveOne ==
  \A order \in Orderings(Present) :
    EveryLargest(delay_mapping, AboveOne(delay_mapping),
                 _apply_incident_impacts(Fetched(order), _graphs, delay_mapping,
                                           _edge_baselines, _current_multipliers,
                                           _modified_edges))

\* a cycle has run on incidents of multipliers 1.5, 4, 0 and 0.5, of an
\* unknown category and without coordinates, and their edge has multiplier 4
C26_Witness ==
  /\ impacts_current
  /\ {"i1", "i4", "i5", "i6", "i7", "i8"} \subseteq Present
  /\ Cardinality(Contributing(<<"bus", "A", "B", <<"T1">>>>, delay_mapping,
                               AboveOne(delay_mapping))) = 2
  /\ DictGet(_current_multipliers, <<"bus", "A", "B", <<"T1">>>>, ONE) = <<4, 1>>

(***************************************************************************)
(* The default path                                                        *)
(***************************************************************************)
\* what a response says of the default path: its nodes and its
\* total_default_weight, or the error
DefaultOfResponse(response) ==
  IF response.default_path = None THEN <<response.error>>
  ELSE <<The(response.default_path).nodes,
         The(response.default_path).total_default_weight>>

DefaultsOf(gs, request) ==
  {DefaultOfResponse(response) :
     response \in plan_route_with_incidents(gs, request.mode, request.source,
                                             request.target)}

\* C27: in every state reached by weight updates, each request is answered
\* with the default path, by nodes and total_default_weight, it is answered
\* with on the graphs as built, and the response last given has that
\* default path.
C27_DefaultPathFromDefaultWeight ==
  /\ \A request \in RouteRequests :
       DefaultsOf(_graphs, request) = DefaultsOf(BuiltGraphs, request)
  /\ route_plan # None
     => DefaultOfResponse(The(route_plan).response)
          \in DefaultsOf(BuiltGraphs, The(route_plan).request)

\* a route was planned after a weight update on its default path: the
\* default path is the one of the built graphs and its current total is not
\* its default total
C27_Witness ==
  /\ route_plan # None
  /\ The(route_plan).graphs = _graphs
  /\ _graphs # BuiltGraphs
  /\ The(route_plan).response.default_path # None
  /\ The(The(route_plan).response.default_path).nodes = <<"A", "C">>
  /\ The(The(route_plan).response.default_path).total_current_weight
       > The(The(route_plan).response.default_path).total_default_weight

(***************************************************************************)
(* The response of a route request                                         *)
(***************************************************************************)
SomeImpacted(segments) == \E i \in DOMAIN segments : segments[i].impacted

ConsistentResponse(response) ==
  response.error = None
  => /\ response.default_path # None
     /\ response.incident_detected <=> SomeImpacted(The(response.default_path).segments)
     /\ response.suggested_path # None
        => /\ response.incident_detected
           /\ The(response.suggested_path).nodes # The(response.default_path).nodes
     /\ response.message = None <=> ~response.incident_detected

\* C28: every response a route request can get, in every state, and the
\* response last given: incident_detected is true exactly when a segment of
\* default_path is impacted, suggested_path is present only with
\* incident_detected and other nodes than default_path, and message is
\* absent exactly when incident_detected is false.
C28_ResponseConsistent ==
  /\ \A request \in RouteRequests :
       \A response \in plan_route_with_incidents(_graphs, request.mode, request.source,
                                                  request.target) :
         ConsistentResponse(response)
  /\ route_plan # None => ConsistentResponse(The(route_plan).response)

\* a response with an impacted default path, a suggested path and the
\* message that says so
C28_Witness ==
  /\ route_plan # None
  /\ The(route_plan).response.incident_detected
  /\ SomeImpacted(The(The(route_plan).response.default_path).segments)
  /\ The(route_plan).response.suggested_path # None
  /\ The(route_plan).response.message = Some("alternative route suggested")

(***************************************************************************)
(* The segments of a path                                                  *)
(***************************************************************************)
\* the segment is an edge between its two stops, of least default_weight
\* among the parallel ones, with that edge's weights and impact
SegmentOfCheapest(g, segment, edges) ==
  /\ \E k \in DOMAIN edges :
       /\ edges[k].key = segment.key
       /\ edges[k].default_weight = segment.default_weight
       /\ edges[k].weight = segment.current_weight
       /\ segment.impacted <=> edges[k].weight > edges[k].default_weight
  /\ \A k \in DOMAIN edges : segment.default_weight <= edges[k].default_weight

PathOfCheapest(g, path) ==
  /\ Len(path.segments) = Len(path.nodes) - 1
  /\ \A i \in DOMAIN path.segments :
       /\ path.segments[i].source = path.nodes[i]
       /\ path.segments[i].target = path.nodes[i + 1]
       /\ SegmentOfCheapest(g, path.segments[i],
                            get_edge_data(g, path.nodes[i], path.nodes[i + 1]))

\* the edges that are not of least default_weight between their two stops
NotCheapest(g) ==
  {k \in DOMAIN g : \E j \in DOMAIN g : /\ g[j].source = g[k].source
                                       /\ g[j].target = g[k].target
                                       /\ g[j].default_weight < g[k].default_weight}

\* no edge but ones that are not the cheapest of their pair is above its
\* default weight
OnlyOthersImpacted(g) ==
  \A k \in DOMAIN g : g[k].weight > g[k].default_weight => k \in NotCheapest(g)

SegmentsOfCheapest(g, response) ==
  response.error = None
  => /\ PathOfCheapest(g, The(response.default_path))
     /\ response.suggested_path # None => PathOfCheapest(g, The(response.suggested_path))
     /\ OnlyOthersImpacted(g) => ~response.incident_detected

\* C29: in every response a route request can get, in every state, each
\* segment of default_path and of suggested_path is an edge of least
\* default_weight among the parallel edges between its two stops, with that
\* edge's key, weights and impacted flag; when the only edges above their
\* default weight are parallel edges that are not of least default_weight,
\* incident_detected is false.
C29_SegmentsOfCheapest ==
  \A request \in RouteRequests :
    request.mode \in DOMAIN _graphs
    => \A response \in plan_route_with_incidents(_graphs, request.mode, request.source,
                                                  request.target) :
         SegmentsOfCheapest(_graphs[request.mode], response)

\* a route from A to B was planned while the parallel edge of trip T2, not
\* the cheapest by default, was above its default weight: the segment is the
\* edge of trip T1 and no incident is detected
C29_Witness ==
  /\ route_plan # None
  /\ The(route_plan).graphs = _graphs
  /\ The(route_plan).request = Route("bus", "A", "B")
  /\ EdgeOf(_graphs, "bus", "A", "B", <<"T2">>).weight
       > EdgeOf(_graphs, "bus", "A", "B", <<"T2">>).default_weight
  /\ OnlyOthersImpacted(_graphs["bus"])
  /\ The(The(route_plan).response.default_path).segments[1].key = <<"T1">>
  /\ ~The(route_plan).response.incident_detected

(***************************************************************************)
(* The nearest transit edge                                                *)
(***************************************************************************)
\* the distance of the midpoint of the edge to the point
MidpointDistance(e, latitude) ==
  _haversine_km(latitude, (StopLat[e.source] + StopLat[e.target]) \div 2)

\* the modes get_closest_transit_edge looks at, in the order of self._graphs
TransitOrder(gs) ==
  SelectSeq(ModeOrder, LAMBDA m : m \in DOMAIN gs /\ m \notin {"walking", "bike"})

\* the place of the edge in the iteration over the modes and their edges
PlaceOf(gs, address) ==
  <<CHOOSE i \in DOMAIN TransitOrder(gs) : TransitOrder(gs)[i] = address[1],
    CHOOSE j \in EdgeIndex(gs[address[1]], address[2], address[3], address[4]) : TRUE>>

Before(p, q) == p[1] < q[1] \/ (p[1] = q[1] /\ p[2] < q[2])

\* the view is of a transit edge, with the distance of its midpoint; no
\* transit edge is nearer and none as near comes before it
NearestView(gs, latitude, view) ==
  /\ view.address[1] \in DOMAIN gs \ {"walking", "bike"}
  /\ EdgeIndex(gs[view.address[1]], view.address[2], view.address[3], view.address[4]) # {}
  /\ view.distance_to_point_km = MidpointDistance(view.data, latitude)
  /\ \A m \in DOMAIN gs \ {"walking", "bike"} : \A j \in DOMAIN gs[m] :
       /\ MidpointDistance(gs[m][j], latitude) >= view.distance_to_point_km
       /\ MidpointDistance(gs[m][j], latitude) = view.distance_to_point_km
          => ~Before(PlaceOf(gs, AddressOf(gs[m][j])), PlaceOf(gs, view.address))

Nearest(gs, latitude, view) ==
  IF \A m \in DOMAIN gs \ {"walking", "bike"} : gs[m] = <<>>
  THEN view = None
  ELSE view # None /\ NearestView(gs, latitude, The(view))

\* the graphs of a service whose feed has no trip: walking and bike only
WithoutTransit(gs) == [m \in DOMAIN gs \cap {"walking", "bike"} |-> gs[m]]

\* the graphs when the transit graphs have no edge
EmptyTransit(gs) == [m \in DOMAIN gs |-> IF m \in {"walking", "bike"} THEN gs[m] ELSE <<>>]

EdgeSet(g) == {g[i] : i \in DOMAIN g}

\* the edges are a connector pair: two edges, one the reverse of the other,
\* of equal weight, at their default weight, flagged connector
ConnectorPairOf(edges) ==
  /\ Cardinality(edges) = 2
  /\ \A e \in edges :
       /\ e.connector = Some(TRUE)
       /\ e.weight = e.default_weight
       /\ e.source # e.target
       /\ \E r \in edges : /\ r.source = e.target
                            /\ r.target = e.source
                            /\ r.weight = e.weight

\* the loop has stopped on a graph that is connected or has no candidate
\* pair; on the feed of the model it has built what _ensure_connected builds
StoppedRight(b) ==
  ~b.running
  => /\ Components(b.graph) <= 1 \/ RepairCandidates(b.graph, b.lat) = {}
     /\ b.lat = StopLat => b.graph = _ensure_connected(b.start, WALKER_SPEED_KMH, "walking")

\* an iteration breaks exactly on a connected graph or with no candidate
\* pair, and otherwise adds a connector pair that leaves fewer components
IterationRight(b, after) ==
  /\ after.running <=> (Components(b.graph) > 1 /\ RepairCandidates(b.graph, b.lat) # {})
  /\ ~after.running => after.graph = b.graph
  /\ after.running
     => /\ EdgeSet(b.graph) \subseteq EdgeSet(after.graph)
        /\ Len(after.graph) = Len(b.graph) + 2
        /\ ConnectorPairOf(EdgeSet(after.graph) \ EdgeSet(b.graph))
        /\ Components(after.graph) < Components(b.graph)

\* C31: the repair loop ends on every feed; it stops exactly when the graph
\* is weakly connected or no pair at non-zero distance joins the first
\* component to another stop; every iteration that does not stop adds two
\* edges, u->v and v->u, of equal weight, with weight = default_weight and
\* connector = true, and leaves fewer weakly connected components.
C31_RepairTerminates ==
  /\ [](build # None /\ StoppedRight(The(build)))
  /\ [][The(build).running => IterationRight(The(build), The(build'))]_build
  /\ <>(~The(build).running)

\* the loop has stopped at its fourth iteration on a feed with stops in two
\* places and no walking edge, after adding three connector pairs
C31_Witness ==
  /\ build # None
  /\ ~The(build).running
  /\ The(build).lat # StopLat
  /\ Components(The(build).start) = 4
  /\ Len(The(build).graph) = 6
  /\ Components(The(build).graph) = 1
  /\ iterations = 4

(***************************************************************************)
(* The walking graph                                                       *)
(***************************************************************************)
\* the walking edge from source to target, at its default weight
WalkingEdgeAt(g, source, target, weight) ==
  \E i \in DOMAIN g :
    /\ g[i].source = source /\ g[i].target = target
    /\ g[i].mode = "walking"
    /\ g[i].weight = weight
    /\ g[i].default_weight = weight

\* the segment has its two walking edges, of one weight
WalkedBothWays(g, lat, e) ==
  (e.source # e.target /\ DistanceIn(lat, e.source, e.target) # 0)
  => \E weight \in {g[i].weight : i \in DOMAIN g} :
       /\ WalkingEdgeAt(g, e.source, e.target, weight)
       /\ WalkingEdgeAt(g, e.target, e.source, weight)

OneEdgePerPair(g) ==
  \A source \in Nodes, target \in Nodes : Len(get_edge_data(g, source, target)) <= 1

WalkingSymmetric(b) ==
  /\ \A i \in DOMAIN b.base : WalkedBothWays(b.graph, b.lat, b.base[i])
  /\ OneEdgePerPair(b.graph)
  /\ \A i \in DOMAIN b.graph : b.graph[i].weight = b.graph[i].default_weight

\* C32: on every feed, before, during and after the repair, the walking
\* graph has for every transit segment between two distinct stops at
\* non-zero distance the edge A->B and the edge B->A, of equal weight, each
\* with weight = default_weight, and at most one edge per ordered pair of
\* stops; on the feed of the model it is the walking graph of the build.
C32_WalkingGraphSymmetric ==
  /\ build # None
  /\ WalkingSymmetric(The(build))
  /\ WalkingGraphIn(StopLat, BuiltGraphs["bus"])
       = add_edges(<<>>, WalkingEdges(BuiltGraphs["bus"], <<>>))
  /\ _ensure_connected(WalkingGraphIn(StopLat, BuiltGraphs["bus"]), WALKER_SPEED_KMH,
                       "walking") = BuiltGraphs["walking"]

\* the walking graph of a feed with stops in two places and trips A->B, at
\* distance zero, and B->C, once repaired: both edges between B and C, none
\* between A and B
C32_Witness ==
  /\ build # None
  /\ ~The(build).running
  /\ The(build).lat["A"] = The(build).lat["B"]
  /\ The(build).lat["B"] # The(build).lat["C"]
  /\ \E i \in DOMAIN The(build).base :
       The(build).base[i] = [source |-> "A", target |-> "B"]
  /\ \E i \in DOMAIN The(build).base :
       The(build).base[i] = [source |-> "B", target |-> "C"]
  /\ get_edge_data(The(build).graph, "B", "C") # <<>>
  /\ get_edge_data(The(build).graph, "C", "B") # <<>>
  /\ get_edge_data(The(build).graph, "A", "B") = <<>>

(***************************************************************************)
(* The stops and the edges of the graphs                                   *)
(***************************************************************************)
\* the modes, and the edges of each by source, target and key, in
\* iteration order
Topology(gs) ==
  [m \in DOMAIN gs |-> [i \in DOMAIN gs[m] |-> <<gs[m][i].source, gs[m][i].target,
                                                 gs[m][i].key>>]]

StopsOf(gs) ==
  UNION {{gs[m][i].source : i \in DOMAIN gs[m]} \cup {gs[m][i].target : i \in DOMAIN gs[m]} :
           m \in DOMAIN gs}

\* C33: in every state after build_graphs the graphs have the modes, the
\* stops and the edges (source, target, key) of the graphs as built, whatever
\* update_edge, update_closest_transit_edge, incident cycles, post approvals
\* and revocations and bike parking loads have been applied.
C33_TopologyFixed ==
  /\ Topology(_graphs) = Topology(BuiltGraphs)
  /\ StopsOf(_graphs) = StopsOf(BuiltGraphs)
  /\ StopsOf(_graphs) \subseteq Nodes

\* an incident cycle, a post approval and a PATCH have each changed a
\* weight
C33_Witness ==
  /\ _modified_edges # <<>>
  /\ \E p \in PostIds : posts[p] # NewPost
  /\ \E i \in DOMAIN _graphs["walking"] :
       _graphs["walking"][i].weight # BuiltGraphs["walking"][i].weight
  /\ \E i \in DOMAIN _graphs["bus"] :
       _graphs["bus"][i].weight # BuiltGraphs["bus"][i].weight

(***************************************************************************)
(* What a successful update_edge leaves alone                              *)
(***************************************************************************)
\* the calls looked at: those of the components, and calls on a connector,
\* on a bike edge and by speed on a parallel edge's neighbour
FrameCalls ==
  EdgeCalls \cup
  { Patch("walking", "C", "D", Some(ConnectorKey("walking", "C", "D")), Some(50), None),
    Patch("walking", "D", "C", None, None, Some(2)),
    Patch("bike", "A", "B", None, Some(50), None),
    Patch("bus", "B", "C", None, Some(70), None) }

\* the edge after the call is the edge before it but for its weight, and for
\* its speed_kmh when the call gave one
OnlyWeightAndSpeed(before, after, p) ==
  /\ [after EXCEPT !.weight = before.weight, !.speed_kmh = before.speed_kmh] = before
  /\ p.speed_kmh = None => after.speed_kmh = before.speed_kmh
  /\ p.speed_kmh # None => after.speed_kmh = p.speed_kmh
  /\ p.weight # None /\ p.speed_kmh = None => after.weight = The(p.weight)

OnlyAddressed(gs, p, r) ==
  r.error = None
  => /\ DOMAIN r.graphs = DOMAIN gs
     /\ The(r.edge).mode = p.mode
     /\ The(r.edge).source = p.source
     /\ The(r.edge).target = p.target
     /\ p.key # None => The(r.edge).key = The(p.key)
     /\ \A m \in DOMAIN gs :
          /\ DOMAIN r.graphs[m] = DOMAIN gs[m]
          /\ \A i \in DOMAIN gs[m] :
               IF m = p.mode /\ AddressOf(gs[m][i]) = AddressOf(The(r.edge))
               THEN OnlyWeightAndSpeed(gs[m][i], r.graphs[m][i], p)
               ELSE r.graphs[m][i] = gs[m][i]

\* C34: in every state, a successful update_edge leaves every edge as it
\* was but the one it addresses, of which it changes the weight and, when
\* given, speed_kmh: parallel edges of other keys, the reverse edge of a
\* walking or connector pair and the edges of the other modes keep their
\* weight, default_weight and speed_kmh.
C34_OnlyAddressedEdge ==
  \A p \in FrameCalls :
    OnlyAddressed(_graphs, p,
                  update_edge(_graphs, p.mode, p.source, p.target, p.key, p.weight,
                              p.speed_kmh, NoContext))

\* update_edge has written the walking edge from A to B and the first bus
\* edge from A to B; the walking edge from B to A and the parallel bus edge
\* are as built
C34_Witness ==
  /\ EdgeOf(_graphs, "walking", "A", "B", WalkKey("A", "B")).weight = 20
  /\ EdgeOf(_graphs, "walking", "B", "A", WalkKey("B", "A"))
       = EdgeOf(BuiltGraphs, "walking", "B", "A", WalkKey("B", "A"))
  /\ EdgeOf(_graphs, "bus", "A", "B", <<"T1">>).weight = 30
  /\ EdgeOf(_graphs, "bus", "A", "B", <<"T2">>).weight = 80
  /\ _graphs["bike"] = BuiltGraphs["bike"]

(***************************************************************************)
(* A refused update_edge                                                   *)
(***************************************************************************)
NoEffect(gs, r) ==
  r.error # None => /\ r.graphs = gs
                    /\ r.events = <<>>
                    /\ r.edge = None

\* C35 as stated: in every state, an update_edge that raises (unknown mode,
\* unknown edge or key, speed_kmh for an edge without distance_km, resolved
\* weight that is not positive, the weight derived from a speed_kmh that is
\* not positive included) leaves the weight and the speed_kmh of every edge
\* as they were and has no event.
\* Violated: the call refused for the weight derived from a negative
\* speed_kmh has already written the speed_kmh to the edge.
C35_FailedUpdateNoEffect ==
  \A p \in FrameCalls :
    NoEffect(_graphs, update_edge(_graphs, p.mode, p.source, p.target, p.key, p.weight,
                                  p.speed_kmh, NoContext))

(***************************************************************************)
(* The bookkeeping of the incident loop                                    *)
(***************************************************************************)
\* every edge with a baseline has baseline * recorded multiplier, and
\* _modified_edges lists the edges whose recorded multiplier is not 1
Bookkept(r) ==
  /\ \A i \in DOMAIN r.baselines :
       DataOf(r.graphs, r.baselines[i][1]).weight
         = RatMul(r.baselines[i][2], DictGet(r.multipliers, r.baselines[i][1], ONE))
  /\ {r.modified[i] : i \in DOMAIN r.modified}
       = {r.multipliers[i][1] : i \in {j \in DOMAIN r.multipliers :
                                          r.multipliers[j][2] # ONE}}

RevokedTo(gs, a, post_id) ==
  a.ok => revoke_post(a.graphs, a.post, post_id).graphs = gs

\* approve_post after the approval a
ApprovedAgain(a, latitude, post_id) == approve_post(a.graphs, a.post, latitude, post_id)

RoundTrip(gs, first, latitude, post_id) ==
  /\ RevokedTo(gs, first, post_id)
  /\ first.ok => RevokedTo(gs, ApprovedAgain(first, latitude, post_id), post_id)

NeverApproved(gs, r) == r.graphs = gs /\ r.events = <<>>

\* C37 as stated: in every state, for a post with coordinates that is not
\* approved, revoke_post after one approve_post, and after two, gives back
\* the graphs as they were before the first approve_post; revoke_post on a
\* post that was never approved changes no edge and has no event.
\* Violated: the second approve_post stores the weight the first one
\* applied as edge_weight_before, and revoke_post restores that.
C37_PostRoundTrip ==
  \A p \in PostIds :
    /\ (PostLat[p] # None /\ ~posts[p].approved)
       => RoundTrip(_graphs, approve_post(_graphs, posts[p], PostLat[p], p), PostLat[p], p)
    /\ posts[p] = NewPost => NeverApproved(_graphs, revoke_post(_graphs, posts[p], p))

\* the same without the second approve_post
SingleRoundTrip ==
  \A p \in PostIds :
    /\ (PostLat[p] # None /\ ~posts[p].approved)
       => RevokedTo(_graphs, approve_post(_graphs, posts[p], PostLat[p], p), p)
    /\ posts[p] = NewPost => NeverApproved(_graphs, revoke_post(_graphs, posts[p], p))

(***************************************************************************)
(* Reads of the graph service                                              *)
(***************************************************************************)
\* a read call that leaves every stored graph as it was and publishes nothing
Pure(gs, outcome) == outcome.graphs = gs /\ outcome.events = <<>>

\* the graph with its impacted edges taken out lacks an edge of the graph
RemovesEdges(g) == Len(CleanCopy(g).clean_graph) < Len(g)

\* C38: plan_route_with_incidents, get_closest_transit_edge, graph_snapshot,
\* available_modes and get_graph leave every graph and every bike setting of
\* the store as they were and put no event on a subscriber queue, whatever
\* the weights are and whether or not a stream is connected; the graph
\* without the impacted edges is a copy, the stored graph keeps its edges
C38_ReadsArePure ==
  /\ [](\A operation \in ReadOperations :
          \A outcome \in ReadsOf(_graphs, operation) : Pure(_graphs, outcome))
  /\ [](\A m \in DOMAIN _graphs : CleanCopy(_graphs[m]).graph = _graphs[m])
  /\ [][last_read' # last_read => UNCHANGED <<graph_vars, bus_vars>>]_vars

\* a route planned for a connected stream while T1 is impacted: an
\* alternative is suggested, T1 is still in the stored graph with its raised
\* weight, and the queue of the stream is empty
C38_Witness ==
  /\ last_read.operation = "plan_route"
  /\ last_read.response.incident_detected
  /\ last_read.response.suggested_path # None
  /\ RemovesEdges(_graphs["bus"])
  /\ EdgeOf(_graphs, "bus", "A", "B", <<"T1">>).weight = 200
  /\ _subscribers = {"c1"}
  /\ queues["c1"] = <<>>
  /\ published = 0

(***************************************************************************)
(* Membership of the subscriber set                                        *)
(***************************************************************************)
\* the event is in the queue of the stream or was sent on it
EventOn(c, event) ==
  \/ \E i \in 1..Len(queues[c]) : queues[c][i] = event
  \/ \E i \in 1..Len(sent[c]) : sent[c][i] = event

\* the event went to no queue but those subscribed when its publication
\* started, and to all of them once _notify_subscribers has returned
PutOnListed(n) ==
  /\ n.put \subseteq n.at_start
  /\ n.put \cap n.ended_at_start = {}
  /\ \A c \in Streams \ n.at_start : ~EventOn(c, n.event)
  /\ \A c \in n.put : EventOn(c, n.event)
  /\ n.returned => n.put = n.at_start

\* C39: the subscribers are the queues of the streams whose handler is
\* between subscribe() and its finally clause, however the stream ended; an
\* event is put on no queue that was unsubscribed, or not yet subscribed, when
\* its publication started, and on every queue that was subscribed then,
\* also when streams connect and end between two puts of the publication
C39_MembershipSafe ==
  /\ _subscribers = {c \in Streams : handlers[c] \in Open}
  /\ IF publishing = None THEN TRUE ELSE PutOnListed(The(publishing))

\* between two puts of a publication that started with c1 subscribed alone,
\* c1 has ended with its put still to come and c2 has subscribed
C39_Witness ==
  /\ publishing # None
  /\ ~The(publishing).returned
  /\ The(publishing).at_start = {"c1"}
  /\ The(publishing).pending = {"c1"}
  /\ handlers["c1"] = "ended"
  /\ handlers["c2"] = "streaming"
  /\ _subscribers = {"c2"}

(***************************************************************************)
(* The frame of load_bike_parkings                                         *)
(***************************************************************************)
\* the graphs of the modes other than bike are what they were
OtherModesKept(before, after) ==
  /\ DOMAIN after = DOMAIN before \cup {"bike"}
  /\ \A m \in DOMAIN before \ {"bike"} : after[m] = before[m]

\* the bike graph has the edges of the walking graph, source, target and key,
\* in its order, each at its default weight
BikeFromWalking(after) ==
  /\ Topology(after)["bike"] = Topology(after)["walking"]
  /\ \A i \in DOMAIN after["bike"] :
       /\ after["bike"][i].mode = "bike"
       /\ after["bike"][i].weight = after["bike"][i].default_weight

\* the queue has one event more, a snapshot of the graphs
OneSnapshotPut(before, after, gs) ==
  /\ Len(after) = Len(before) + 1
  /\ SubSeq(after, 1, Len(before)) = before
  /\ after[Len(after)].type = "snapshot"
  /\ after[Len(after)].graphs = Some(gs)

BikeOnly ==
  /\ OtherModesKept(_graphs, _graphs')
  /\ BikeFromWalking(_graphs')
  /\ \A c \in _subscribers : OneSnapshotPut(queues[c], queues'[c], _graphs')
  /\ \A c \in Streams \ _subscribers : queues'[c] = queues[c]
  /\ _subscribers' = _subscribers

\* C40: load_bike_parkings leaves the graph of every mode but bike as it
\* was, patched weights included; the bike graph it stores has the edges of
\* the walking graph, each with weight equal to default_weight, whatever the
\* weights of the walking and bike edges were; and the queue of every
\* subscriber gets one event more, a snapshot of the graphs as stored
C40_BikeRebuildOnly == [][BikeRequest(RadiusOverrides) => BikeOnly]_vars

\* parkings loaded for a connected stream after PATCH requests on the
\* walking and the bus edge: both keep their weight, the bike edge between
\* the same stops is at its default weight, and the last event in the queue
\* is the snapshot of the stored graphs
C40_Witness ==
  /\ _bike_parkings = <<0, 10>>
  /\ EdgeOf(_graphs, "walking", "A", "B", WalkKey("A", "B")).weight = 20
  /\ EdgeOf(_graphs, "walking", "A", "B", WalkKey("A", "B")).default_weight # 20
  /\ EdgeOf(_graphs, "bus", "A", "B", <<"T2">>).weight = 20
  /\ EdgeOf(_graphs, "bike", "A", "B", WalkKey("A", "B")).weight
       = EdgeOf(_graphs, "bike", "A", "B", WalkKey("A", "B")).default_weight
  /\ EdgeOf(_graphs, "bike", "A", "B", WalkKey("A", "B")).speed_kmh = Some(BIKE_SPEED_KMH)
  /\ _subscribers = {"c1"}
  /\ queues["c1"] # <<>>
  /\ queues["c1"][Len(queues["c1"])].type = "snapshot"
  /\ queues["c1"][Len(queues["c1"])].graphs = Some(_graphs)

====
